---- MODULE Spec2Model ----
(***************************************************************************)
(* Detached execution and NDJSON tailing core of the chat backend:         *)
(*   - NdjsonTailer (chat/tail.rs), at byte level, against a writer that   *)
(*     appends to the output file;                                         *)
(*   - the run functions execute_codex_detached, execute_kimi_detached     *)
(*     and execute_gemini_detached (chat/codex.rs, chat/kimi.rs,           *)
(*     chat/gemini.rs) against the spawned process, the cancellation       *)
(*     registry and a control thread.                                      *)
(***************************************************************************)
EXTENDS Integers, Sequences, FiniteSets, TLC

VARIABLES
    \* ---- NdjsonTailer and the file it tails (byte level) ----
    tfile,        \* bytes of the output file, in file order
    tpos,         \* read offset of the tailer's BufReader into tfile
    tbuffer,      \* NdjsonTailer.buffer: bytes read since the last newline
    in_poll,      \* TRUE while a poll() call is inside its loop
    cur_lines,    \* the local `lines` of the poll() call in progress
    delivered,    \* every record returned by a poll() so far, in order
    last_poll,    \* outcome of the last poll() that returned: "none", "ok", "err"
    tmode,        \* constructor of the tailer: "start" (new_from_start), "end" (new_at_end)
    tlen0,        \* length of the file when the tailer was created
    \* ---- one run of execute_<vendor>_detached ----
    vendor,       \* "codex", "kimi" or "gemini"
    pc,           \* position of the run function
    registry,     \* cancellation registry: session id -> pid (NoPid: not running)
    proc,         \* spawned process: "none", "running", "exited"
    exit_ok,      \* exit status of the process is success
    out,          \* records the process has written (file for codex/kimi, pipe for gemini)
    rd,           \* number of records of out the run has consumed
    full_content, \* transcript accumulated by the run
    got_first_output,
    completed,
    since_start,  \* start_time.elapsed(), in seconds, while it can still be read
    since_output, \* last_output_time.elapsed(), in seconds, saturating
    events,       \* events emitted to the UI, in order
    result,       \* value returned to the caller
    exit_reason,  \* why the loop was left
    cancel_requested, \* the control thread marked the session not running
    n_register,   \* calls of register_process by this run
    n_unregister, \* calls of unregister_process by this run
    polled,       \* the loop has polled the tailer (codex/kimi) or read a line (gemini)
    \* ---- several runs sharing the cancellation registry ----
    rth,          \* per run thread: its position, its session id and whether
                  \* it has registered ("yes") and then unregistered ("removed")
    reg_lock,     \* per mutex of the registry: its holder, or "free"
    alive,        \* process ids of the spawned processes still alive
    \* ---- shell_escape (chat/detached.rs) ----
    esc_in,       \* the argument handed to shell_escape
    esc_cmd,      \* the text shell_escape returned for it
    esc_done,     \* shell_escape has been applied
    \* ---- session index storage (chat/storage.rs) ----
    st_index,     \* index file of each worktree: the session ids it lists
    st_meta,      \* session ids that have a metadata file
    st_lock,      \* holder of each mutex of INDEX_LOCKS, or "free"
    st_map_lock,  \* holder of the mutex around the INDEX_LOCKS map, or "free"
    sth,          \* per caller of the storage functions: position and locals
    \* ---- terminal sessions (terminal/) ----
    term_reg,     \* TERMINAL_SESSIONS: terminal id -> session (NoTerm: absent)
    term_child,   \* per spawned session: state of its child process
    term_reader,  \* per spawned session: its reader thread
    term_events,  \* terminal:* events emitted, in order
    tcall         \* per caller of the terminal commands: position and locals

tailVars == <<tfile, tpos, tbuffer, in_poll, cur_lines, delivered, last_poll,
              tmode, tlen0>>
runVars == <<vendor, pc, registry, proc, exit_ok, out, rd, full_content,
             got_first_output, completed, since_start, since_output, events,
             result, exit_reason, cancel_requested, n_register, n_unregister,
             polled>>
regModelVars == <<rth, reg_lock, alive>>
escVars == <<esc_in, esc_cmd, esc_done>>
storeVars == <<st_index, st_meta, st_lock, st_map_lock, sth>>
termVars == <<term_reg, term_child, term_reader, term_events, tcall>>
auxVars == <<escVars, storeVars, termVars>>
vars == <<tailVars, runVars, regModelVars, auxVars>>

\* ------------------------------------------------------------------------
\* Bounds of the model
\* ------------------------------------------------------------------------
\* Largest number of bytes the writer appends to the tailed file.
MaxLen == 5
\* Largest number of records the spawned process writes in one run.
MaxRecords == 2
\* Largest number of bytes in the file when a tailer is created on it.
MaxPre == 2

\* ------------------------------------------------------------------------
\* NdjsonTailer (chat/tail.rs)
\* ------------------------------------------------------------------------
\* Bytes of the file: an ASCII letter, the newline, and the lead and the
\* continuation byte of a two-byte UTF-8 character.
Bytes == {"a", "NL", "L", "C"}

\* The writer emits UTF-8 text: a lead byte is followed by a continuation
\* byte, and a continuation byte only follows a lead byte.
WriterMayAppend(f, b) ==
    IF Len(f) > 0 /\ f[Len(f)] = "L" THEN b = "C" ELSE b # "C"

\* str::from_utf8 on the bytes one read_line call appended.
ValidUtf8(s) ==
    \A i \in 1..Len(s) :
        /\ (s[i] = "L" => (i < Len(s) /\ s[i + 1] = "C"))
        /\ (s[i] = "C" => (i > 1 /\ s[i - 1] = "L"))

\* Index of the first newline after offset pos, 0 when there is none.
NextNewline(f, pos) ==
    LET nls == {i \in (pos + 1)..Len(f) : f[i] = "NL"}
    IN IF nls = {} THEN 0 ELSE CHOOSE i \in nls : \A j \in nls : i <= j

\* BufRead::read_until(b'\n'): the bytes from the offset up to and including
\* the next newline, or up to the current end of the file.
ReadUntilNewline(f, pos) ==
    LET nl == NextNewline(f, pos)
    IN IF nl = 0 THEN SubSeq(f, pos + 1, Len(f)) ELSE SubSeq(f, pos + 1, nl)

EndsWithNewline(s) == Len(s) > 0 /\ s[Len(s)] = "NL"

\* str::trim_end_matches('\n')
RECURSIVE TrimEndNewlines(_)
TrimEndNewlines(s) ==
    IF EndsWithNewline(s) THEN TrimEndNewlines(SubSeq(s, 1, Len(s) - 1)) ELSE s

\* One iteration of the loop of NdjsonTailer::poll: a read_line call and the
\* match on its result. st is "eof" (Ok(0): break), "more" (Ok(_): loop
\* again) or "err" (Err: return Err, the local lines are dropped; the bytes
\* the failed read_line consumed are gone from the reader).
PollIteration(f, pos, buf, lines) ==
    LET line == ReadUntilNewline(f, pos)
        joined == buf \o line
    IN IF Len(line) = 0
       THEN [st |-> "eof", pos |-> pos, buffer |-> buf, lines |-> lines]
       ELSE IF ~ValidUtf8(line)
       THEN [st |-> "err", pos |-> pos + Len(line), buffer |-> buf, lines |-> <<>>]
       ELSE IF EndsWithNewline(joined)
       THEN [st |-> "more", pos |-> pos + Len(line), buffer |-> <<>>,
             lines |-> Append(lines, TrimEndNewlines(joined))]
       ELSE [st |-> "more", pos |-> pos + Len(line), buffer |-> joined,
             lines |-> lines]

\* NdjsonTailer::has_incomplete_data
has_incomplete_data == tbuffer # <<>>

\* The newline-terminated lines of a byte sequence, without their newlines.
RECURSIVE CompleteLines(_)
CompleteLines(f) ==
    LET nl == NextNewline(f, 0)
    IN IF nl = 0 THEN <<>>
       ELSE <<SubSeq(f, 1, nl - 1)>> \o CompleteLines(SubSeq(f, nl + 1, Len(f)))

\* The writer appends one byte; a chunk of several bytes is several appends
\* with no poll between them.
WriterAppend ==
    /\ Len(tfile) < MaxLen
    /\ \E b \in Bytes :
        /\ WriterMayAppend(tfile, b)
        /\ tfile' = Append(tfile, b)
    /\ UNCHANGED <<tpos, tbuffer, in_poll, cur_lines, delivered, last_poll,
                   tmode, tlen0>>
    /\ UNCHANGED <<runVars, regModelVars, auxVars>>

\* poll() is called: let mut lines = Vec::new().
PollStart ==
    /\ ~in_poll
    /\ in_poll' = TRUE
    /\ cur_lines' = <<>>
    /\ UNCHANGED <<tfile, tpos, tbuffer, delivered, last_poll, tmode, tlen0>>
    /\ UNCHANGED <<runVars, regModelVars, auxVars>>

\* One iteration of the loop of poll(); on Ok(0) or Err the call returns.
PollReadLine ==
    /\ in_poll
    /\ LET r == PollIteration(tfile, tpos, tbuffer, cur_lines)
       IN /\ tpos' = r.pos
          /\ tbuffer' = r.buffer
          /\ IF r.st = "more"
             THEN /\ cur_lines' = r.lines
                  /\ UNCHANGED <<in_poll, delivered, last_poll>>
             ELSE /\ cur_lines' = <<>>
                  /\ in_poll' = FALSE
                  /\ delivered' = delivered \o r.lines
                  /\ last_poll' = IF r.st = "eof" THEN "ok" ELSE "err"
    /\ UNCHANGED <<tfile, tmode, tlen0>>
    /\ UNCHANGED <<runVars, regModelVars, auxVars>>


\* ------------------------------------------------------------------------
\* Run functions (chat/codex.rs, chat/kimi.rs, chat/gemini.rs)
\* ------------------------------------------------------------------------
Vendors == {"codex", "kimi", "gemini"}
TailVendors == {"codex", "kimi"}

\* The session ids in use; Session and Pid are the session id of the run
\* and the pid of its spawned process.
Sessions == {"s1", "s2"}
Session == "s1"
Pid == "pid1"
NoPid == "none"

\* Timeout for waiting for first output, in seconds.
STARTUP_TIMEOUT == 120
\* Timeout after the process dies to wait for final output, in seconds.
DEAD_PROCESS_GRACE_PERIOD == 2

\* Kinds of record the process writes, one line each:
\*   "msg"    the vendor's text message carrying the text "a"
\*            (codex: item.completed/agent_message; kimi: role assistant
\*            with a string content; gemini: type message),
\*   "done"   the line {"type":"turn.completed","usage":{}},
\*   "fail"   the vendor's error record (codex: turn.failed; kimi: role
\*            error; gemini: type error with a string error).
Records == {"msg", "done", "fail"}

\* Events emitted to the UI, with the fields of their payload (all carry the
\* session id and the worktree id of the run, left out here).
Chunk(c) == [name |-> "chat:chunk", content |-> c]
ErrorEvent == [name |-> "chat:error"]
DoneEvent(c, ok) == [name |-> "chat:done", success |-> ok, content |-> c]
GeminiDoneEvent(ok) == [name |-> "chat:done", success |-> ok]

CountEvents(evs, n) == Cardinality({i \in 1..Len(evs) : evs[i].name = n})

NoSignal(fc, evs) == [content |-> fc, events |-> evs, signal |-> FALSE]

\* Every kind of line the interpreters are given. Beside Records:
\*   "blank"        a line of whitespace only,
\*   "text"         the line `a`, which is not JSON,
\*   "echo"         {"message":{"content":"a","role":"user"},"type":"user"},
\*   "echo_role"    {"type":"message","role":"user","content":"a"},
\*   "echo_spaced"  {"type": "message", "role": "user", "content": "a"}
\*                  (the same record written with a space after each colon),
\*   "result"       {"type":"result","result":"a"}.
AllRecords ==
    Records \cup {"blank", "text", "echo", "echo_role", "echo_spaced", "result"}

\* line.trim().is_empty()
LineIsBlank(line) == line = "blank"
\* serde_json::from_str(line) is Ok
LineIsJson(line) == line \notin {"blank", "text"}
\* The text of a line that is not JSON.
LineText(line) == <<"a">>

\* The "type" of a JSON line, as the Codex and the Gemini interpreter read
\* it ("msg" and "fail" stand for the vendor's own records).
CodexType(line) ==
    CASE line = "msg" -> "item.completed"
      [] line = "done" -> "turn.completed"
      [] line = "fail" -> "turn.failed"
      [] line = "echo" -> "user"
      [] line \in {"echo_role", "echo_spaced"} -> "message"
      [] line = "result" -> "result"
GeminiType(line) ==
    CASE line = "msg" -> "message"
      [] line = "done" -> "turn.completed"
      [] line = "fail" -> "error"
      [] line = "echo" -> "user"
      [] line \in {"echo_role", "echo_spaced"} -> "message"
      [] line = "result" -> "result"
\* The top-level "role" of a JSON line, "" when it has none.
KimiRole(line) ==
    CASE line = "msg" -> "assistant"
      [] line = "fail" -> "error"
      [] line \in {"echo_role", "echo_spaced"} -> "user"
      [] OTHER -> ""
\* A top-level string field "text", "content" or "output" of a JSON line.
HasContentField(line) == line \in {"echo_role", "echo_spaced"}

\* line.contains(r#""type":"user""#) || line.contains(r#""role":"user""#):
\* a test on the bytes of the line, which the spaced record does not pass.
ContainsUserMarker(line) == line \in {"echo", "echo_role"}

\* Both push the text and a newline and emit the chunk `{text}\n`.
AppendWithNewline(fc, text) ==
    NoSignal(fc \o text \o <<"\n">>, <<Chunk(text \o <<"\n">>)>>)

\* Mutant of process_codex_event: the error record is taken for the end of
\* the turn.
process_codex_event_ErrorCompletes(line, fc) ==
    IF LineIsBlank(line) THEN NoSignal(fc, <<>>)
    ELSE IF ~LineIsJson(line) THEN AppendWithNewline(fc, LineText(line))
    ELSE CASE CodexType(line) = "item.completed" -> AppendWithNewline(fc, <<"a">>)
           [] CodexType(line) = "turn.completed" ->
                [content |-> fc, events |-> <<>>, signal |-> TRUE]
           [] CodexType(line) = "turn.failed" ->
                [content |-> fc, events |-> <<ErrorEvent>>, signal |-> TRUE]
           [] OTHER -> IF HasContentField(line)
                       THEN AppendWithNewline(fc, <<"a">>)
                       ELSE NoSignal(fc, <<>>)

\* process_codex_event: the new transcript, the events emitted and whether
\* Some(true) is returned.
process_codex_event(line, fc) ==
    IF LineIsBlank(line) THEN NoSignal(fc, <<>>)
    ELSE IF ~LineIsJson(line) THEN AppendWithNewline(fc, LineText(line))
    ELSE CASE CodexType(line) = "item.completed" -> AppendWithNewline(fc, <<"a">>)
           [] CodexType(line) = "turn.completed" ->
                [content |-> fc, events |-> <<>>, signal |-> TRUE]
           [] CodexType(line) = "turn.failed" -> NoSignal(fc, <<ErrorEvent>>)
           [] OTHER -> IF HasContentField(line)
                       THEN AppendWithNewline(fc, <<"a">>)
                       ELSE NoSignal(fc, <<>>)

\* Mutant of process_kimi_event: the turn.completed line signals completion,
\* as it does for Codex.
process_kimi_event_SignalsCompletion(line, fc) ==
    IF LineIsBlank(line) THEN NoSignal(fc, <<>>)
    ELSE IF ~LineIsJson(line) THEN AppendWithNewline(fc, LineText(line))
    ELSE IF line = "done" THEN [content |-> fc, events |-> <<>>, signal |-> TRUE]
    ELSE CASE KimiRole(line) = "assistant" -> AppendWithNewline(fc, <<"a">>)
           [] KimiRole(line) = "error" -> NoSignal(fc, <<ErrorEvent>>)
           [] OTHER -> NoSignal(fc, <<>>)

\* process_kimi_event: there is no arm that returns Some(true); a line with
\* no role, or with a role other than assistant, tool and error, falls to the
\* unknown-role arm.
process_kimi_event(line, fc) ==
    IF LineIsBlank(line) THEN NoSignal(fc, <<>>)
    ELSE IF ~LineIsJson(line) THEN AppendWithNewline(fc, LineText(line))
    ELSE CASE KimiRole(line) = "assistant" -> AppendWithNewline(fc, <<"a">>)
           [] KimiRole(line) = "error" -> NoSignal(fc, <<ErrorEvent>>)
           [] OTHER -> NoSignal(fc, <<>>)

\* Mutant of process_gemini_line: the result record is used whether or not
\* text was accumulated before it.
process_gemini_line_ResultAlways(line, fc) ==
    IF LineIsBlank(line) THEN NoSignal(fc, <<>>)
    ELSE IF ContainsUserMarker(line) THEN NoSignal(fc, <<>>)
    ELSE IF ~LineIsJson(line)
    THEN NoSignal(fc \o LineText(line) \o <<"\n">>, <<Chunk(LineText(line))>>)
    ELSE CASE GeminiType(line) = "user" -> NoSignal(fc, <<>>)
           [] GeminiType(line) = "message" ->
                NoSignal(fc \o <<"a">>, <<Chunk(<<"a">>)>>)
           [] GeminiType(line) = "result" ->
                NoSignal(fc \o <<"a">>, <<Chunk(<<"a">>)>>)
           [] GeminiType(line) = "error" -> NoSignal(fc, <<ErrorEvent>>)
           [] OTHER -> NoSignal(fc, <<>>)

\* Body of the for loop of execute_gemini_detached for one line: empty
\* lines are skipped; a line with the user marker is cut down to what
\* follows its first JSON object (nothing, for the records here) and
\* skipped; a line that is not JSON is pushed with a newline, its chunk
\* carrying it without; a JSON line is dispatched on its type.
process_gemini_line(line, fc) ==
    IF LineIsBlank(line) THEN NoSignal(fc, <<>>)
    ELSE IF ContainsUserMarker(line) THEN NoSignal(fc, <<>>)
    ELSE IF ~LineIsJson(line)
    THEN NoSignal(fc \o LineText(line) \o <<"\n">>, <<Chunk(LineText(line))>>)
    ELSE CASE GeminiType(line) = "user" -> NoSignal(fc, <<>>)
           [] GeminiType(line) = "message" ->
                NoSignal(fc \o <<"a">>, <<Chunk(<<"a">>)>>)
           [] GeminiType(line) = "result" ->
                IF fc = <<>> THEN NoSignal(<<"a">>, <<Chunk(<<"a">>)>>)
                ELSE NoSignal(fc, <<>>)
           [] GeminiType(line) = "error" -> NoSignal(fc, <<ErrorEvent>>)
           [] OTHER -> NoSignal(fc, <<>>)

Interpret(v, line, fc) ==
    CASE v = "codex" -> process_codex_event(line, fc)
      [] v = "kimi" -> process_kimi_event(line, fc)
      [] v = "gemini" -> process_gemini_line(line, fc)

\* for line in lines { if let Some(true) = process(..) { completed = true; break; } }
RECURSIVE ProcessLines(_, _, _, _)
ProcessLines(v, lines, fc, evs) ==
    IF lines = <<>>
    THEN [content |-> fc, events |-> evs, completed |-> FALSE]
    ELSE LET r == Interpret(v, Head(lines), fc)
         IN IF r.signal
            THEN [content |-> r.content, events |-> evs \o r.events,
                  completed |-> TRUE]
            ELSE ProcessLines(v, Tail(lines), r.content, evs \o r.events)

\* str::trim on the transcript: "\n" is its only whitespace.
RECURSIVE TrimStart(_)
TrimStart(s) == IF Len(s) > 0 /\ Head(s) = "\n" THEN TrimStart(Tail(s)) ELSE s
RECURSIVE TrimEnd(_)
TrimEnd(s) ==
    IF Len(s) > 0 /\ s[Len(s)] = "\n" THEN TrimEnd(SubSeq(s, 1, Len(s) - 1)) ELSE s
Trim(s) == TrimEnd(TrimStart(s))

\* Cancellation registry (chat/registry.rs).
\* Mutant of register_process: the map is rebuilt from the new entry alone,
\* the entries of the other sessions are lost.
register_process_LosesOthers(reg, s, p) ==
    [x \in Sessions |-> IF x = s THEN p ELSE NoPid]

register_process(reg, s, p) == [reg EXCEPT ![s] = p]
unregister_process(reg, s) == [reg EXCEPT ![s] = NoPid]
is_process_running(reg, s) == reg[s] # NoPid

\* platform::is_process_alive
is_process_alive == proc = "running"

Min(a, b) == IF a < b THEN a ELSE b

ErrResult == [kind |-> "Err", content |-> <<>>, cancelled |-> FALSE]
OkResult(c) == [kind |-> "Ok", content |-> c, cancelled |-> FALSE]
NoResult == [kind |-> "none", content |-> <<>>, cancelled |-> FALSE]

\* Positions of the tail loop of execute_codex_detached / execute_kimi_detached.
TailLoopPcs == {"loop_cancel", "loop_poll", "loop_alive", "loop_timeout"}
\* Positions inside the loop of any vendor.
LoopPcs == TailLoopPcs \cup {"g_next"}

\* Mutant of DeadAndGraceElapsed: the liveness test is inverted.
DeadAndGraceElapsed_Inverted ==
    is_process_alive /\ since_output > DEAD_PROCESS_GRACE_PERIOD

\* if !process_alive { if last_output_time.elapsed() > DEAD_PROCESS_GRACE_PERIOD
DeadAndGraceElapsed ==
    ~is_process_alive /\ since_output > DEAD_PROCESS_GRACE_PERIOD

\* Mutant of StartupTimedOut: the negation of got_first_output is lost.
StartupTimedOut_NoNegation == got_first_output /\ since_start > STARTUP_TIMEOUT

\* if !got_first_output && start_time.elapsed() > STARTUP_TIMEOUT
StartupTimedOut == ~got_first_output /\ since_start > STARTUP_TIMEOUT

\* Variables no step of the run function changes.
tailUnchanged == UNCHANGED <<tailVars, regModelVars, auxVars>>
procVars == <<proc, exit_ok, out>>
loopLocals == <<rd, full_content, got_first_output, completed, since_start,
                since_output, polled>>
regVars == <<registry, n_register, n_unregister, cancel_requested>>

\* return Err(..) before the loop was entered.
ReturnErr(reason) ==
    /\ result' = ErrResult
    /\ exit_reason' = reason
    /\ pc' = "returned"

\* let cli_path = get_<vendor>_cli_path().map_err(|e| { emit chat:error; .. })?
GetCliPath ==
    /\ pc = "get_cli_path"
    /\ \E ok \in BOOLEAN :
        IF ok
        THEN /\ pc' = "check_exists"
             /\ UNCHANGED <<events, result, exit_reason>>
        ELSE /\ events' = Append(events, ErrorEvent)
             /\ ReturnErr("launch_failed")
    /\ UNCHANGED <<vendor, procVars, loopLocals, regVars>>
    /\ tailUnchanged

\* if !cli_path.exists() { emit chat:error; return Err(..) }
CheckCliExists ==
    /\ pc = "check_exists"
    /\ \E ok \in BOOLEAN :
        IF ok
        THEN /\ pc' = "prepare"
             /\ UNCHANGED <<events, result, exit_reason>>
        ELSE /\ events' = Append(events, ErrorEvent)
             /\ ReturnErr("launch_failed")
    /\ UNCHANGED <<vendor, procVars, loopLocals, regVars>>
    /\ tailUnchanged

\* codex/kimi: std::fs::write(output_file, "").map_err(..)?
\* gemini:     std::fs::read_to_string(input_file).map_err(..)?
PrepareFiles ==
    /\ pc = "prepare"
    /\ \E ok \in BOOLEAN :
        IF ok
        THEN /\ pc' = "spawn"
             /\ UNCHANGED <<result, exit_reason>>
        ELSE ReturnErr("launch_failed")
    /\ UNCHANGED <<vendor, events, procVars, loopLocals, regVars>>
    /\ tailUnchanged

\* codex/kimi: let pid = spawn_detached_<vendor>(..)?  The launching shell
\*             can fail to start (no process), or the shell backgrounds the
\*             CLI and then the wait on the shell, its exit status or the
\*             parse of the echoed pid fails: Err is returned while the
\*             detached process runs.
\* gemini:     Command::new(..).spawn().map_err(..)?
SpawnProcess ==
    /\ pc = "spawn"
    /\ \E ok \in BOOLEAN :
        IF ok
        THEN /\ pc' = "register"
             /\ proc' = "running"
             /\ UNCHANGED <<result, exit_reason>>
        ELSE /\ ReturnErr("launch_failed")
             /\ proc' \in (IF vendor \in TailVendors
                           THEN {"none", "running"} ELSE {"none"})
    /\ UNCHANGED <<vendor, events, exit_ok, out, loopLocals, regVars>>
    /\ tailUnchanged

\* super::registry::register_process(session_id.to_string(), pid)
RegisterProcess ==
    /\ pc = "register"
    /\ registry' = register_process(registry, Session, Pid)
    /\ n_register' = n_register + 1
    /\ pc' = "setup"
    /\ UNCHANGED <<vendor, events, result, exit_reason, procVars, loopLocals,
                   n_unregister, cancel_requested>>
    /\ tailUnchanged

\* codex/kimi: NdjsonTailer::new_from_start(output_file).map_err(..)? and the
\*             locals of the tail loop;
\* gemini:     child.stdout.take() (Some, as stdout was piped) and the locals.
SetupLoop ==
    /\ pc = "setup"
    /\ \E ok \in (IF vendor \in TailVendors THEN BOOLEAN ELSE {TRUE}) :
        IF ok
        THEN /\ pc' = IF vendor \in TailVendors THEN "loop_cancel" ELSE "g_next"
             /\ UNCHANGED <<result, exit_reason>>
        ELSE ReturnErr("setup_failed")
    /\ UNCHANGED <<vendor, events, procVars, loopLocals, regVars>>
    /\ tailUnchanged

\* Top of the tail loop: if !is_process_running(session_id) { break; }
LoopCancelCheck ==
    /\ pc = "loop_cancel"
    /\ IF ~is_process_running(registry, Session)
       THEN /\ exit_reason' = "cancelled"
            /\ pc' = "unregister"
       ELSE /\ pc' = "loop_poll"
            /\ UNCHANGED exit_reason
    /\ UNCHANGED <<vendor, events, result, procVars, loopLocals, regVars>>
    /\ tailUnchanged

\* match tailer.poll(): Ok(lines) are the records written since the last
\* poll, each passed to the interpreter until one signals completion. On
\* Err(e) (a failed read_line) the error is logged; the records the call
\* had already read are dropped with its local `lines`.
LoopPoll ==
    /\ pc = "loop_poll"
    /\ polled' = TRUE
    /\ \E io_ok \in BOOLEAN :
        /\ last_poll' = IF io_ok THEN "ok" ELSE "err"
        /\ IF io_ok
           THEN LET lines == SubSeq(out, rd + 1, Len(out))
                    r == ProcessLines(vendor, lines, full_content, <<>>)
                IN /\ rd' = Len(out)
                   /\ IF lines # <<>>
                      THEN /\ got_first_output' = TRUE
                           /\ since_output' = 0
                           /\ since_start' = 0
                           /\ full_content' = r.content
                           /\ events' = events \o r.events
                           /\ completed' = r.completed
                           /\ IF r.completed
                              THEN /\ exit_reason' = "completed"
                                   /\ pc' = "unregister"
                              ELSE /\ pc' = "loop_alive"
                                   /\ UNCHANGED exit_reason
                      ELSE /\ pc' = "loop_alive"
                           /\ UNCHANGED <<got_first_output, since_output,
                                          since_start, full_content, events,
                                          completed, exit_reason>>
           ELSE /\ \E k \in rd..Len(out) : rd' = k
                /\ pc' = "loop_alive"
                /\ UNCHANGED <<got_first_output, since_output, since_start,
                               full_content, events, completed, exit_reason>>
    /\ UNCHANGED <<vendor, result, procVars, regVars>>
    /\ UNCHANGED <<tfile, tpos, tbuffer, in_poll, cur_lines, delivered, tmode,
                   tlen0, regModelVars, auxVars>>

\* let process_alive = is_process_alive(pid);
\* if !process_alive { if last_output_time.elapsed() > GRACE { break; } }
LoopAliveCheck ==
    /\ pc = "loop_alive"
    /\ IF DeadAndGraceElapsed
       THEN /\ exit_reason' = "dead"
            /\ pc' = "unregister"
       ELSE /\ pc' = "loop_timeout"
            /\ UNCHANGED exit_reason
    /\ UNCHANGED <<vendor, events, result, procVars, loopLocals, regVars>>
    /\ tailUnchanged

\* if !got_first_output && start_time.elapsed() > STARTUP_TIMEOUT
\*     { emit chat:error; break; }
\* thread::sleep(POLL_INTERVAL); and the next iteration.
LoopTimeoutCheck ==
    /\ pc = "loop_timeout"
    /\ IF StartupTimedOut
       THEN /\ events' = Append(events, ErrorEvent)
            /\ exit_reason' = "timeout"
            /\ pc' = "unregister"
       ELSE /\ pc' = "loop_cancel"
            /\ UNCHANGED <<events, exit_reason>>
    /\ UNCHANGED <<vendor, result, procVars, loopLocals, regVars>>
    /\ tailUnchanged

\* gemini: one iteration of for line_result in reader.lines(): the read
\* blocks until the process has written a line or has closed its stdout.
\* The cancellation check comes first; a line_result of Err is logged and
\* skipped.
GeminiNextLine ==
    /\ pc = "g_next"
    /\ IF rd < Len(out)
       THEN /\ rd' = rd + 1
            /\ polled' = TRUE
            /\ IF ~is_process_running(registry, Session)
               THEN /\ exit_reason' = "cancelled"
                    /\ pc' = "g_wait"
                    /\ UNCHANGED <<full_content, events>>
               ELSE \E io_ok \in BOOLEAN :
                    LET r == Interpret(vendor, out[rd + 1], full_content)
                    IN /\ full_content' = IF io_ok THEN r.content ELSE full_content
                       /\ events' = IF io_ok THEN events \o r.events ELSE events
                       /\ UNCHANGED <<pc, exit_reason>>
       ELSE /\ proc = "exited"
            /\ exit_reason' = "eof"
            /\ pc' = "g_wait"
            /\ UNCHANGED <<rd, polled, full_content, events>>
    /\ UNCHANGED <<vendor, result, procVars, got_first_output, completed,
                   since_start, since_output, regVars>>
    /\ tailUnchanged

\* gemini: let status = child.wait().map_err(..)?  (blocks until the exit)
GeminiWait ==
    /\ pc = "g_wait"
    /\ proc = "exited"
    /\ \E ok \in BOOLEAN :
        IF ok
        THEN /\ pc' = "unregister"
             /\ UNCHANGED <<result, exit_reason>>
        ELSE ReturnErr("wait_failed")
    /\ UNCHANGED <<vendor, events, procVars, loopLocals, regVars>>
    /\ tailUnchanged

\* Mutant of UnregisterProcess: the call is skipped and the run goes on to
\* its final events.
UnregisterProcess_Skipped ==
    /\ pc = "unregister"
    /\ pc' = IF vendor \in TailVendors THEN "finish" ELSE "g_status"
    /\ UNCHANGED <<vendor, events, result, exit_reason, procVars, loopLocals,
                   regVars>>
    /\ tailUnchanged

\* super::registry::unregister_process(session_id)
UnregisterProcess ==
    /\ pc = "unregister"
    /\ registry' = unregister_process(registry, Session)
    /\ n_unregister' = n_unregister + 1
    /\ pc' = IF vendor \in TailVendors THEN "finish" ELSE "g_status"
    /\ UNCHANGED <<vendor, events, result, exit_reason, procVars, loopLocals,
                   n_register, cancel_requested>>
    /\ tailUnchanged

\* codex/kimi: response_text = full_content.trim(); emit chat:done with
\* success = completed || !response_text.is_empty(); Ok((pid, response)).
FinishTailRun ==
    /\ pc = "finish"
    /\ LET response_text == Trim(full_content)
       IN /\ events' = Append(events,
                  DoneEvent(response_text, completed \/ response_text # <<>>))
          /\ result' = OkResult(response_text)
    /\ pc' = "returned"
    /\ UNCHANGED <<vendor, exit_reason, procVars, loopLocals, regVars>>
    /\ tailUnchanged

\* gemini: if !status.success() && full_content.is_empty()
\*             { emit chat:error; return Err(..) }
\* else emit chat:done with success = status.success() (the event has no
\* content field); Ok((pid, response)).
FinishGeminiRun ==
    /\ pc = "g_status"
    /\ IF ~exit_ok /\ full_content = <<>>
       THEN /\ events' = Append(events, ErrorEvent)
            /\ result' = ErrResult
       ELSE /\ events' = Append(events, GeminiDoneEvent(exit_ok))
            /\ result' = OkResult(Trim(full_content))
    /\ pc' = "returned"
    /\ UNCHANGED <<vendor, exit_reason, procVars, loopLocals, regVars>>
    /\ tailUnchanged

\* The spawned process appends one record to its output.
ProcessWrite ==
    /\ proc = "running"
    /\ Len(out) < MaxRecords
    /\ \E r \in Records : out' = Append(out, r)
    /\ UNCHANGED <<vendor, pc, events, result, exit_reason, proc, exit_ok,
                   loopLocals, regVars>>
    /\ tailUnchanged

\* The spawned process exits; only gemini reads the exit status.
ProcessExit ==
    /\ proc = "running"
    /\ proc' = "exited"
    /\ exit_ok' \in (IF vendor = "gemini" THEN BOOLEAN ELSE {TRUE})
    /\ UNCHANGED <<vendor, pc, events, result, exit_reason, out, loopLocals,
                   regVars>>
    /\ tailUnchanged

\* The control thread marks the session as not running.
Cancel ==
    /\ pc # "returned"
    /\ is_process_running(registry, Session)
    /\ registry' = unregister_process(registry, Session)
    /\ cancel_requested' = TRUE
    /\ UNCHANGED <<vendor, pc, events, result, exit_reason, procVars,
                   loopLocals, n_register, n_unregister>>
    /\ tailUnchanged

\* The next reading of an elapsed time at which a comparison of the loop can
\* change its outcome: just past the grace period, then just past the
\* startup timeout.
NextDeadline(t) ==
    IF t <= DEAD_PROCESS_GRACE_PERIOD THEN DEAD_PROCESS_GRACE_PERIOD + 1
    ELSE STARTUP_TIMEOUT + 1

\* Time passes while the tail loop runs. Both elapsed times are only
\* compared with their limits, so the clock moves from one limit to the
\* next and the readings saturate just above their limit; and
\* start_time.elapsed() is read only while got_first_output is false, so
\* since_start is tracked until the first output and is 0 from then on.
Tick ==
    /\ pc \in TailLoopPcs
    /\ since_start' = IF got_first_output THEN since_start
                      ELSE Min(NextDeadline(since_start), STARTUP_TIMEOUT + 1)
    /\ since_output' = Min(NextDeadline(since_output),
                           DEAD_PROCESS_GRACE_PERIOD + 1)
    /\ UNCHANGED <<vendor, pc, events, result, exit_reason, procVars, rd,
                   full_content, got_first_output, completed, polled, regVars>>
    /\ tailUnchanged

\* ------------------------------------------------------------------------
\* Several runs and the cancellation registry they share
\* ------------------------------------------------------------------------
\* Threads each executing one run function; each spawns its own process.
Threads == {"t1", "t2"}
PidOf(t) == IF t = "t1" THEN "pid1" ELSE "pid2"

\* registry::get_running_sessions (list_running): the registered session ids.
get_running_sessions(reg) == {s \in Sessions : reg[s] # NoPid}

threadUnchanged == UNCHANGED <<tailVars, vendor, pc, proc, exit_ok, out, rd,
                               full_content, got_first_output, completed,
                               since_start, since_output, events, result,
                               exit_reason, cancel_requested, n_register,
                               n_unregister, polled, auxVars>>

\* let pid = spawn_detached_<vendor>(..)? : the process of the run starts.
\* When the launch fails the function returns Err without registering; with
\* codex and kimi the detached process may be running all the same (the
\* failure came after the shell had backgrounded it).
ThreadSpawn(t) ==
    /\ rth[t].pc = "start"
    /\ \/ /\ alive' = alive \cup {PidOf(t)}
          /\ rth' = [rth EXCEPT ![t].pc = "register"]
       \/ /\ alive' \in (IF vendor \in TailVendors
                         THEN {alive, alive \cup {PidOf(t)}} ELSE {alive})
          /\ rth' = [rth EXCEPT ![t].pc = "returned"]
    /\ UNCHANGED <<registry, reg_lock>>
    /\ threadUnchanged

\* The mutexes of the registry: "registry" guards the map session id ->
\* process id, "locks" guards the map of per-id mutexes, and each session id
\* names its own mutex (the pattern of get_index_lock and get_metadata_lock
\* in storage.rs).
RegistryMutexes == {"registry", "locks"} \cup Sessions

\* The positions of a run inside a call of register_process, in order, and
\* inside a call of unregister_process.
RegisterPcs ==
    <<"register", "register_lookup", "register_id", "register_map",
      "registering">>
UnregisterPcs ==
    <<"unregister", "unregister_lookup", "unregister_id", "unregister_map",
      "unregistering">>

\* The position that follows the i-th position of the call a run is in.
CallPcAfter(p, i) ==
    IF p = RegisterPcs[i] THEN RegisterPcs[i + 1] ELSE UnregisterPcs[i + 1]

\* A call of register_process or unregister_process begins by looking up the
\* mutex of its session id: it takes the mutex of the map of per-id mutexes.
ThreadIdLookupLock(t) ==
    /\ rth[t].pc \in {RegisterPcs[1], UnregisterPcs[1]}
    /\ reg_lock["locks"] = "free"
    /\ reg_lock' = [reg_lock EXCEPT !["locks"] = t]
    /\ rth' = [rth EXCEPT ![t].pc = CallPcAfter(rth[t].pc, 1)]
    /\ UNCHANGED <<registry, alive>>
    /\ threadUnchanged

\* The per-id mutex is found (or inserted) and the mutex of the map of
\* per-id mutexes released.
ThreadIdLookup(t) ==
    /\ rth[t].pc \in {RegisterPcs[2], UnregisterPcs[2]}
    /\ reg_lock["locks"] = t
    /\ reg_lock' = [reg_lock EXCEPT !["locks"] = "free"]
    /\ rth' = [rth EXCEPT ![t].pc = CallPcAfter(rth[t].pc, 2)]
    /\ UNCHANGED <<registry, alive>>
    /\ threadUnchanged

\* The call takes the mutex of its session id, which it holds until it
\* returns.
ThreadIdLock(t) ==
    /\ rth[t].pc \in {RegisterPcs[3], UnregisterPcs[3]}
    /\ reg_lock[rth[t].session] = "free"
    /\ reg_lock' = [reg_lock EXCEPT ![rth[t].session] = t]
    /\ rth' = [rth EXCEPT ![t].pc = CallPcAfter(rth[t].pc, 3)]
    /\ UNCHANGED <<registry, alive>>
    /\ threadUnchanged

\* Holding the mutex of its session id, the call takes the mutex that guards
\* the registry's map.
ThreadLock(t) ==
    /\ rth[t].pc \in {RegisterPcs[4], UnregisterPcs[4]}
    /\ reg_lock[rth[t].session] = t
    /\ reg_lock["registry"] = "free"
    /\ reg_lock' = [reg_lock EXCEPT !["registry"] = t]
    /\ rth' = [rth EXCEPT ![t].pc = CallPcAfter(rth[t].pc, 4)]
    /\ UNCHANGED <<registry, alive>>
    /\ threadUnchanged

\* super::registry::register_process(session_id.to_string(), pid): the entry
\* is written and, as the call returns, the mutex of the map and the mutex
\* of the session id are released.
ThreadRegister(t) ==
    /\ rth[t].pc = "registering"
    /\ reg_lock["registry"] = t
    /\ registry' = register_process(registry, rth[t].session, PidOf(t))
    /\ reg_lock' = [reg_lock EXCEPT !["registry"] = "free",
                                    ![rth[t].session] = "free"]
    /\ rth' = [rth EXCEPT ![t].pc = "setup", ![t].reg = "yes"]
    /\ UNCHANGED alive
    /\ threadUnchanged

\* codex/kimi: NdjsonTailer::new_from_start(output_file).map_err(..)? : when
\* the file cannot be opened the function returns Err, without a call of
\* unregister_process.  gemini: child.stdout.take() is Some.
ThreadSetup(t) ==
    /\ rth[t].pc = "setup"
    /\ \E ok \in (IF vendor \in TailVendors THEN BOOLEAN ELSE {TRUE}) :
         rth' = [rth EXCEPT ![t].pc = IF ok THEN "loop" ELSE "returned"]
    /\ UNCHANGED <<registry, reg_lock, alive>>
    /\ threadUnchanged

\* The loop of the run is left, by any of its paths.  gemini then waits for
\* its child: child.wait().map_err(..)? returns Err, without a call of
\* unregister_process, when the wait fails.
ThreadLeaveLoop(t) ==
    /\ rth[t].pc = "loop"
    /\ \E ok \in (IF vendor = "gemini" THEN BOOLEAN ELSE {TRUE}) :
         rth' = [rth EXCEPT ![t].pc = IF ok THEN "unregister" ELSE "returned"]
    /\ UNCHANGED <<registry, reg_lock, alive>>
    /\ threadUnchanged

\* super::registry::unregister_process(session_id): the entry is removed
\* and, as the call returns, both mutexes are released.
ThreadUnregister(t) ==
    /\ rth[t].pc = "unregistering"
    /\ reg_lock["registry"] = t
    /\ registry' = unregister_process(registry, rth[t].session)
    /\ reg_lock' = [reg_lock EXCEPT !["registry"] = "free",
                                    ![rth[t].session] = "free"]
    /\ rth' = [rth EXCEPT ![t].pc = "returned", ![t].reg = "removed"]
    /\ UNCHANGED alive
    /\ threadUnchanged

\* The process spawned by a run exits.
ThreadProcessExit(t) ==
    /\ PidOf(t) \in alive
    /\ alive' = alive \ {PidOf(t)}
    /\ UNCHANGED <<registry, reg_lock, rth>>
    /\ threadUnchanged

\* ------------------------------------------------------------------------
\* Specifications
\* ------------------------------------------------------------------------
InitTailVars ==
    /\ tfile = <<>>
    /\ tpos = 0
    /\ tbuffer = <<>>
    /\ in_poll = FALSE
    /\ cur_lines = <<>>
    /\ delivered = <<>>
    /\ last_poll = "none"
    /\ tmode = "start"
    /\ tlen0 = 0

InitRunVars ==
    /\ pc = "get_cli_path"
    /\ registry = [s \in Sessions |-> NoPid]
    /\ proc = "none"
    /\ exit_ok = TRUE
    /\ out = <<>>
    /\ rd = 0
    /\ full_content = <<>>
    /\ got_first_output = FALSE
    /\ completed = FALSE
    /\ since_start = 0
    /\ since_output = 0
    /\ events = <<>>
    /\ result = NoResult
    /\ exit_reason = "none"
    /\ cancel_requested = FALSE
    /\ n_register = 0
    /\ n_unregister = 0
    /\ polled = FALSE

(***************************************************************************)
(* shell_escape (chat/detached.rs): quoting of one argument of the shell   *)
(* command line that launches the detached CLI.  Strings are sequences of  *)
(* characters.                                                             *)
(***************************************************************************)
\* Largest number of characters of an escaped argument.
MaxStr == 3

\* A letter, a blank, the single quote, a shell metacharacter, the backslash.
Chars == {"a", " ", "'", "$", "\\"}
Strings == UNION {[1..n -> Chars] : n \in 0..MaxStr}

\* s.replace('\'', "'\\''"): every single quote becomes the four
\* characters  ' \ ' '  and every other character stays.
RECURSIVE ReplaceQuotes(_)
ReplaceQuotes(s) ==
    IF s = <<>> THEN <<>>
    ELSE (IF Head(s) = "'" THEN <<"'", "\\", "'", "'">> ELSE <<Head(s)>>)
         \o ReplaceQuotes(Tail(s))

shell_escape_NoQuoteEscape(s) == <<"'">> \o s \o <<"'">>
\* format!("'{}'", s.replace('\'', "'\\''"))
shell_escape(s) == <<"'">> \o ReplaceQuotes(s) \o <<"'">>

\* .map(|arg| shell_escape(arg)): one argument is escaped for the command
\* line.
EscapeArgument ==
    /\ ~esc_done
    /\ esc_cmd' = shell_escape(esc_in)
    /\ esc_done' = TRUE
    /\ UNCHANGED <<esc_in, storeVars, termVars, tailVars, runVars, regModelVars>>

InitEscVars ==
    /\ esc_in = <<>>
    /\ esc_cmd = <<>>
    /\ esc_done = FALSE

(***************************************************************************)
(* Session storage (chat/storage.rs): its public functions called from     *)
(* several threads.  An index file is missing or is the ordered list of    *)
(* the session ids it lists; every worktree has its index file, and the    *)
(* index of a closed base session is kept in the base file of its project. *)
(* A metadata file is missing or is the worktree id recorded in it.  A     *)
(* closure handed to with_index_mut or with_sessions_mut adds one session  *)
(* of the caller.                                                          *)
(***************************************************************************)
Worktrees == {"w1", "w2"}
StoreCallers == {"u1", "u2"}
IndexOps == {"with_index_mut", "with_sessions_mut", "load_index",
             "preserve_base_sessions", "restore_base_sessions"}
MetadataOps == {"with_metadata_mut", "save_metadata", "delete_session_data"}
StoreOps == IndexOps \cup MetadataOps

\* sessions/index/base-{project_id}.json of the one project.
BaseFile == "base-p1"
IndexFiles == Worktrees \cup {BaseFile}

\* The session the closure f of caller u adds.
NewSession(u) == IF u = "u1" THEN "n1" ELSE "n2"
\* The session an index file holds when the calls start.
InitialSession(w) == IF w = "w1" THEN "s1" ELSE "s2"
\* The one session of WorktreeIndex::new(worktree_id).
DefaultSession(w) == IF w = "w1" THEN "d1" ELSE "d2"
SessionIds ==
    {NewSession(u) : u \in StoreCallers}
        \cup {InitialSession(w) : w \in Worktrees}
        \cup {DefaultSession(w) : w \in Worktrees}
\* The sessions the metadata functions are called for.
MetaTargets == {"s1", "n1"}

\* The elements of a sequence.
Range(s) == {s[i] : i \in 1..Len(s)}

NoIndexFile == [exists |-> FALSE, sessions |-> <<>>]
IndexFile(sessions) == [exists |-> TRUE, sessions |-> sessions]
NoMetadata == "none"

\* The Ok value of load_index_internal: the index read from the file, or a
\* new index with its default session when there is no file.
load_index_internal(index_file, worktree_id) ==
    IF index_file.exists THEN index_file.sessions
    ELSE <<DefaultSession(worktree_id)>>

\* The closure with_sessions_mut hands to with_index_mut: for every session
\* of the caller's WorktreeSessions, in order, the entry find_session_mut
\* finds for its id in the index as it stands (entries pushed for earlier
\* sessions included) is updated, or an entry is pushed when there is none;
\* then only the entries of those sessions are retained.
SessionsClosure(index, sessions) ==
    LET RECURSIVE UpdateOrPush(_, _)
        UpdateOrPush(idx, ss) ==
            IF ss = <<>> THEN idx
            ELSE UpdateOrPush(IF Head(ss) \in Range(idx)
                              THEN idx ELSE Append(idx, Head(ss)),
                              Tail(ss))
    IN SelectSeq(UpdateOrPush(index, sessions),
                 LAMBDA e : e \in Range(sessions))

get_index_lock_OneLock(worktree_id) == "w1"
\* locks.entry(worktree_id).or_insert_with(..).clone(): the mutex of the
\* map entry of the worktree, named by its key.
get_index_lock(worktree_id) == worktree_id

\* locks.entry(session_id).or_insert_with(..).clone()
get_metadata_lock(session_id) == session_id

storeUnchanged == UNCHANGED <<escVars, termVars, tailVars, runVars, regModelVars>>

\* The session the metadata section of caller u is for: the entry or
\* session the loop is at, or the session the function was called with.
CurrentSession(u) ==
    IF sth[u].stage \in {"load_metadata", "metadata_loop"}
    THEN Head(sth[u].todo) ELSE sth[u].session

\* let mut locks = INDEX_LOCKS.lock().unwrap();  (get_index_lock)
MapLock(u) ==
    /\ sth[u].pc = "start"
    /\ st_map_lock["index"] = "free"
    /\ st_map_lock' = [st_map_lock EXCEPT !["index"] = u]
    /\ sth' = [sth EXCEPT ![u].pc = "lookup"]
    /\ UNCHANGED <<st_index, st_meta, st_lock>>
    /\ storeUnchanged

\* The entry of the worktree is found or created and its Arc cloned; the
\* guard of the map is dropped on return.
MapLookup(u) ==
    /\ sth[u].pc = "lookup"
    /\ st_map_lock' = [st_map_lock EXCEPT !["index"] = "free"]
    /\ sth' = [sth EXCEPT ![u].pc = "lock",
                          ![u].lock = get_index_lock(sth[u].worktree)]
    /\ UNCHANGED <<st_index, st_meta, st_lock>>
    /\ storeUnchanged

\* let _guard = lock.lock().unwrap();  in load_index, with_index_mut,
\* preserve_base_sessions and restore_base_sessions.
IndexLock(u) ==
    /\ sth[u].pc = "lock"
    /\ st_lock[sth[u].lock] = "free"
    /\ st_lock' = [st_lock EXCEPT ![sth[u].lock] = u]
    /\ sth' = [sth EXCEPT
                 ![u].pc = CASE sth[u].stage = "preserve_base_sessions" -> "preserve"
                             [] sth[u].stage = "restore_base_sessions" -> "restore_read"
                             [] OTHER -> "load"]
    /\ UNCHANGED <<st_index, st_meta, st_map_lock>>
    /\ storeUnchanged

\* let index = load_index_internal(app, worktree_id)?;  In load_index the
\* index is saved when there was no file
\* (if !index_path.exists() { save_index_internal(app, &index)?; });
\* in with_index_mut it is the index the closure will change.
LoadIndex(u) ==
    /\ sth[u].pc = "load"
    /\ LET w == sth[u].worktree
           index == load_index_internal(st_index[w], w)
       IN  \/ /\ sth[u].stage = "with_index_mut"
              /\ sth' = [sth EXCEPT ![u].pc = "save", ![u].index = index]
              /\ UNCHANGED st_index
           \/ /\ sth[u].stage = "load_index"
              /\ sth' = [sth EXCEPT ![u].pc = "unlock", ![u].index = index]
              /\ st_index' = IF st_index[w].exists THEN st_index
                             ELSE [st_index EXCEPT ![w] = IndexFile(index)]
           \/ \* load_index_internal(..)? or save_index_internal(..)? is Err
              /\ sth' = [sth EXCEPT ![u].pc = "unlock", ![u].result = "err"]
              /\ UNCHANGED st_index
    /\ UNCHANGED <<st_meta, st_lock, st_map_lock>>
    /\ storeUnchanged

\* let result = f(&mut index)?; save_index_internal(app, &index)?;
\* The closure of a with_index_mut call adds the caller's session; the
\* closure of with_sessions_mut makes the index list the sessions of the
\* caller's WorktreeSessions.  When the closure or the save is Err the file
\* stays as it is.
MutateAndSave(u) ==
    /\ sth[u].pc = "save"
    /\ LET index == IF sth[u].op = "with_index_mut"
                    THEN Append(sth[u].index, NewSession(u))
                    ELSE SessionsClosure(sth[u].index, sth[u].sessions)
       IN  \/ /\ st_index' = [st_index EXCEPT ![sth[u].worktree] = IndexFile(index)]
              /\ sth' = [sth EXCEPT ![u].pc = "unlock", ![u].index = index]
           \/ /\ UNCHANGED st_index
              /\ sth' = [sth EXCEPT ![u].pc = "unlock", ![u].result = "err"]
    /\ UNCHANGED <<st_meta, st_lock, st_map_lock>>
    /\ storeUnchanged

\* The guard is dropped when the function returns.  with_sessions_mut goes
\* on when load_index or with_index_mut returned Ok: load_sessions loads the
\* metadata of every index entry, and after the index is saved the metadata
\* of every session of the caller's list is saved.
IndexUnlock(u) ==
    /\ sth[u].pc = "unlock"
    /\ st_lock' = [st_lock EXCEPT ![sth[u].lock] = "free"]
    /\ LET c == sth[u]
       IN  sth' = [sth EXCEPT ![u] =
             CASE c.result = "err" -> [c EXCEPT !.pc = "returned"]
               [] c.op = "with_sessions_mut" /\ c.stage = "load_index" ->
                    [c EXCEPT !.stage = "load_metadata",
                              !.todo = c.index,
                              !.sessions = <<>>,
                              !.pc = IF c.index = <<>> THEN "apply" ELSE "m_start"]
               [] c.op = "with_sessions_mut" /\ c.stage = "with_index_mut" ->
                    [c EXCEPT !.stage = "metadata_loop",
                              !.todo = c.sessions,
                              !.pc = IF c.sessions = <<>> THEN "returned" ELSE "m_start",
                              !.result = IF c.sessions = <<>> THEN "ok" ELSE c.result]
               [] OTHER ->
                    [c EXCEPT !.pc = "returned",
                              !.result = IF c.result = "pending" THEN "ok" ELSE c.result]]
    /\ UNCHANGED <<st_index, st_meta, st_map_lock>>
    /\ storeUnchanged

\* preserve_base_sessions: if current_path.exists() { fs::rename(
\* &current_path, &preserved_path)?; }
PreserveRename(u) ==
    /\ sth[u].pc = "preserve"
    /\ LET w == sth[u].worktree
       IN  \/ /\ st_index' = IF st_index[w].exists
                             THEN [st_index EXCEPT ![BaseFile] = st_index[w],
                                                   ![w] = NoIndexFile]
                             ELSE st_index
              /\ sth' = [sth EXCEPT ![u].pc = "unlock"]
           \/ /\ UNCHANGED st_index
              /\ sth' = [sth EXCEPT ![u].pc = "unlock", ![u].result = "err"]
    /\ UNCHANGED <<st_meta, st_lock, st_map_lock>>
    /\ storeUnchanged

\* restore_base_sessions: if !preserved_path.exists() { return Ok(None); }
\* let contents = fs::read_to_string(&preserved_path)?; the index is parsed
\* and its worktree_id set to new_worktree_id.
RestoreRead(u) ==
    /\ sth[u].pc = "restore_read"
    /\ \/ /\ ~st_index[BaseFile].exists
          /\ sth' = [sth EXCEPT ![u].pc = "unlock", ![u].result = "ok_none"]
       \/ /\ st_index[BaseFile].exists
          /\ sth' = [sth EXCEPT ![u].pc = "restore_save",
                                ![u].index = st_index[BaseFile].sessions]
       \/ sth' = [sth EXCEPT ![u].pc = "unlock", ![u].result = "err"]
    /\ UNCHANGED <<st_index, st_meta, st_lock, st_map_lock>>
    /\ storeUnchanged

\* restore_base_sessions: save_index_internal(app, &index)?;
RestoreSave(u) ==
    /\ sth[u].pc = "restore_save"
    /\ \/ /\ st_index' = [st_index EXCEPT
                            ![sth[u].worktree] = IndexFile(sth[u].index)]
          /\ sth' = [sth EXCEPT ![u].pc = "restore_remove"]
       \/ /\ UNCHANGED st_index
          /\ sth' = [sth EXCEPT ![u].pc = "unlock", ![u].result = "err"]
    /\ UNCHANGED <<st_meta, st_lock, st_map_lock>>
    /\ storeUnchanged

\* restore_base_sessions: fs::remove_file(&preserved_path)?;  Err when the
\* file is no longer there.
RestoreRemove(u) ==
    /\ sth[u].pc = "restore_remove"
    /\ \/ /\ st_index[BaseFile].exists
          /\ st_index' = [st_index EXCEPT ![BaseFile] = NoIndexFile]
          /\ sth' = [sth EXCEPT ![u].pc = "unlock"]
       \/ /\ UNCHANGED st_index
          /\ sth' = [sth EXCEPT ![u].pc = "unlock", ![u].result = "err"]
    /\ UNCHANGED <<st_meta, st_lock, st_map_lock>>
    /\ storeUnchanged

\* with_sessions_mut: let result = f(&mut sessions)?; then
\* with_index_mut(app, worktree_id, |index| ..) is entered.
ApplyMutation(u) ==
    /\ sth[u].pc = "apply"
    /\ \/ sth' = [sth EXCEPT ![u].pc = "start",
                             ![u].stage = "with_index_mut",
                             ![u].sessions = Append(sth[u].sessions, NewSession(u))]
       \/ sth' = [sth EXCEPT ![u].pc = "returned", ![u].result = "err"]
    /\ UNCHANGED <<st_index, st_meta, st_lock, st_map_lock>>
    /\ storeUnchanged

\* let mut locks = METADATA_LOCKS.lock().unwrap();  (get_metadata_lock)
MetaMapLock(u) ==
    /\ sth[u].pc = "m_start"
    /\ st_map_lock["metadata"] = "free"
    /\ st_map_lock' = [st_map_lock EXCEPT !["metadata"] = u]
    /\ sth' = [sth EXCEPT ![u].pc = "m_lookup"]
    /\ UNCHANGED <<st_index, st_meta, st_lock>>
    /\ storeUnchanged

\* The entry of the session is found or created and its Arc cloned; the
\* guard of the map is dropped on return.
MetaMapLookup(u) ==
    /\ sth[u].pc = "m_lookup"
    /\ st_map_lock' = [st_map_lock EXCEPT !["metadata"] = "free"]
    /\ sth' = [sth EXCEPT ![u].pc = "m_lock",
                          ![u].lock = get_metadata_lock(CurrentSession(u))]
    /\ UNCHANGED <<st_index, st_meta, st_lock>>
    /\ storeUnchanged

\* let _guard = lock.lock().unwrap();  in load_metadata, save_metadata,
\* with_metadata_mut, delete_session_data and the loop of with_sessions_mut.
MetaLock(u) ==
    /\ sth[u].pc = "m_lock"
    /\ st_lock[sth[u].lock] = "free"
    /\ st_lock' = [st_lock EXCEPT ![sth[u].lock] = u]
    /\ sth' = [sth EXCEPT ![u].pc = "meta"]
    /\ UNCHANGED <<st_index, st_meta, st_map_lock>>
    /\ storeUnchanged

\* load_sessions: for entry in &index.sessions { load_metadata(app,
\* &entry.id) .. sessions.push(session) }: the session is built from the
\* metadata or, when there is none or the load is Err, from the entry; the
\* guard is dropped when load_metadata returns.
LoadMetadata(u) ==
    /\ sth[u].pc = "meta" /\ sth[u].stage = "load_metadata"
    /\ st_lock' = [st_lock EXCEPT ![sth[u].lock] = "free"]
    /\ sth' = [sth EXCEPT
                 ![u].sessions = Append(sth[u].sessions, Head(sth[u].todo)),
                 ![u].todo = Tail(sth[u].todo),
                 ![u].pc = IF Tail(sth[u].todo) = <<>> THEN "apply" ELSE "m_start"]
    /\ UNCHANGED <<st_index, st_meta, st_map_lock>>
    /\ storeUnchanged

\* The metadata a section saves when it loads the file or creates the
\* metadata with SessionMetadata::new(session_id, worktree_id, ..).
LoadOrCreate(session_id, worktree_id) ==
    IF st_meta[session_id] = NoMetadata THEN worktree_id ELSE st_meta[session_id]

\* with_sessions_mut: one pass of for session in &sessions.sessions: the
\* metadata is loaded or created, updated from the session and saved, and
\* the guard dropped at the end of the pass.  When the load or the save is
\* Err the function returns with the metadata of the earlier sessions saved.
UpdateSessionMetadata(u) ==
    /\ sth[u].pc = "meta" /\ sth[u].stage = "metadata_loop"
    /\ st_lock' = [st_lock EXCEPT ![sth[u].lock] = "free"]
    /\ LET s == Head(sth[u].todo)
           done == Tail(sth[u].todo) = <<>>
       IN  \/ /\ st_meta' = [st_meta EXCEPT ![s] = LoadOrCreate(s, sth[u].worktree)]
              /\ sth' = [sth EXCEPT
                           ![u].todo = Tail(sth[u].todo),
                           ![u].pc = IF done THEN "returned" ELSE "m_start",
                           ![u].result = IF done THEN "ok" ELSE sth[u].result]
           \/ /\ UNCHANGED st_meta
              /\ sth' = [sth EXCEPT ![u].pc = "returned", ![u].result = "err"]
    /\ UNCHANGED <<st_index, st_map_lock>>
    /\ storeUnchanged

\* with_metadata_mut: the metadata is loaded or created, changed by f and
\* saved; Err of the load, of f or of the save leaves the file as it is.
WithMetadataMut(u) ==
    /\ sth[u].pc = "meta" /\ sth[u].stage = "with_metadata_mut"
    /\ st_lock' = [st_lock EXCEPT ![sth[u].lock] = "free"]
    /\ \/ /\ st_meta' = [st_meta EXCEPT
                           ![sth[u].session] = LoadOrCreate(sth[u].session,
                                                            sth[u].worktree)]
          /\ sth' = [sth EXCEPT ![u].pc = "returned", ![u].result = "ok"]
       \/ /\ UNCHANGED st_meta
          /\ sth' = [sth EXCEPT ![u].pc = "returned", ![u].result = "err"]
    /\ UNCHANGED <<st_index, st_map_lock>>
    /\ storeUnchanged

\* save_metadata: save_metadata_internal(app, metadata) writes the metadata
\* the caller passed.
SaveMetadata(u) ==
    /\ sth[u].pc = "meta" /\ sth[u].stage = "save_metadata"
    /\ st_lock' = [st_lock EXCEPT ![sth[u].lock] = "free"]
    /\ \/ /\ st_meta' = [st_meta EXCEPT ![sth[u].session] = sth[u].worktree]
          /\ sth' = [sth EXCEPT ![u].pc = "returned", ![u].result = "ok"]
       \/ /\ UNCHANGED st_meta
          /\ sth' = [sth EXCEPT ![u].pc = "returned", ![u].result = "err"]
    /\ UNCHANGED <<st_index, st_map_lock>>
    /\ storeUnchanged

\* delete_session_data: if session_dir.exists() { fs::remove_dir_all(
\* &session_dir)?; }  remove_dir_all can fail part-way: Err with the
\* metadata file already removed, or still there.
DeleteSessionData(u) ==
    /\ sth[u].pc = "meta" /\ sth[u].stage = "delete_session_data"
    /\ st_lock' = [st_lock EXCEPT ![sth[u].lock] = "free"]
    /\ \/ /\ st_meta' = [st_meta EXCEPT ![sth[u].session] = NoMetadata]
          /\ sth' = [sth EXCEPT ![u].pc = "returned", ![u].result = "ok"]
       \/ /\ st_meta' \in {st_meta,
                            [st_meta EXCEPT ![sth[u].session] = NoMetadata]}
          /\ sth' = [sth EXCEPT ![u].pc = "returned", ![u].result = "err"]
    /\ UNCHANGED <<st_index, st_map_lock>>
    /\ storeUnchanged

\* A caller about to call op for worktree w (and, a metadata function, for
\* session s).
StoreCall(op, w, s) ==
    [pc |-> IF op \in MetadataOps THEN "m_start" ELSE "start",
     op |-> op, worktree |-> w, session |-> s,
     stage |-> IF op = "with_sessions_mut" THEN "load_index" ELSE op,
     lock |-> "none", index |-> <<>>, sessions |-> <<>>, todo |-> <<>>,
     result |-> "pending"]

\* The calls a caller can make.
StoreCalls ==
    {StoreCall(op, w, "none") : op \in IndexOps, w \in Worktrees}
        \cup {StoreCall(c[1], c[2], c[3]) :
                 c \in MetadataOps \X Worktrees \X MetaTargets}

\* The metadata files of the sessions the index files list.
InitialMetadata(index) ==
    [s \in SessionIds |->
        IF \E w \in Worktrees : index[w].exists /\ s = InitialSession(w)
        THEN CHOOSE w \in Worktrees : s = InitialSession(w)
        ELSE NoMetadata]

InitStoreVars ==
    /\ st_index = [f \in IndexFiles |->
                     IF f \in Worktrees THEN IndexFile(<<InitialSession(f)>>)
                     ELSE NoIndexFile]
    /\ st_meta = InitialMetadata(st_index)
    /\ st_lock = [k \in Worktrees \cup SessionIds |-> "free"]
    /\ st_map_lock = [m \in {"index", "metadata"} |-> "free"]
    /\ sth = [u \in StoreCallers |->
                [StoreCall("with_index_mut", "w1", "none")
                    EXCEPT !.pc = "returned", !.result = "ok"]]

(***************************************************************************)
(* Terminal sessions (terminal/commands.rs, terminal/pty.rs,               *)
(* terminal/registry.rs): the commands start_terminal, stop_terminal and   *)
(* kill_all_terminals called from several threads, the reader thread of    *)
(* every session, the child process of every session and the terminal it  *)
(* runs in.  A session is named by the order in which its shell was        *)
(* spawned.                                                                *)
(***************************************************************************)
\* Largest number of sessions spawned.
MaxSpawns == 2
\* Largest number of reads with output per session.
MaxOutputs == 1

TermIds == {"term1"}
TermCallers == {"c1", "c2"}
TermSessions == 1..MaxSpawns
NoTerm == 0

TerminalStartedEvent(id) == [name |-> "terminal:started", terminal_id |-> id]
TerminalOutputEvent(id) == [name |-> "terminal:output", terminal_id |-> id]
\* session is the TerminalSession that was taken out of the registry
\* before the event was emitted.
TerminalStoppedEvent(id, h) ==
    [name |-> "terminal:stopped", terminal_id |-> id, session |-> h]

\* registry::has_terminal
has_terminal(reg, id) == reg[id] # NoTerm
\* registry::register_terminal: sessions.insert(terminal_id, session)
register_terminal(reg, id, h) == [reg EXCEPT ![id] = h]
\* registry::unregister_terminal: the map after sessions.remove(terminal_id)
unregister_terminal(reg, id) == [reg EXCEPT ![id] = NoTerm]

\* The sessions whose shell was spawned so far.
Spawned == {h \in TermSessions : term_child[h].proc # "none"}

\* A caller between two commands, the last one having returned res.
IdleCall(op, id, res) ==
    [pc |-> "idle", op |-> op, terminal_id |-> id, session |-> NoTerm,
     result |-> res]

termUnchanged == UNCHANGED <<escVars, storeVars, tailVars, runVars, regModelVars>>

\* start_terminal: if has_terminal(&terminal_id) { return Err("Terminal
\* already exists") }; otherwise spawn_terminal is entered.
StartTerminalCheck(c, id) ==
    /\ tcall[c].pc = "idle"
    /\ tcall' = [tcall EXCEPT ![c] =
                   IF has_terminal(term_reg, id)
                   THEN IdleCall("start_terminal", id, "Terminal already exists")
                   ELSE [IdleCall("start_terminal", id, "none")
                            EXCEPT !.pc = "spawn"]]
    /\ UNCHANGED <<term_reg, term_child, term_reader, term_events>>
    /\ termUnchanged

\* spawn_terminal up to the session value: openpty(..)? and
\* spawn_command(cmd)? return Err with no shell; try_clone_reader()? and
\* take_writer()? return Err with the shell spawned.
SpawnTerminal(c) ==
    /\ tcall[c].pc = "spawn"
    /\ \/ /\ Cardinality(Spawned) < MaxSpawns
          /\ LET h == Cardinality(Spawned) + 1
             IN /\ term_child' = [term_child EXCEPT
                                    ![h] = [proc |-> "running", tty |-> "open"]]
                /\ \/ tcall' = [tcall EXCEPT ![c].pc = "register",
                                             ![c].session = h]
                   \/ tcall' = [tcall EXCEPT ![c].pc = "idle",
                                             ![c].result = "Err"]
       \/ /\ tcall' = [tcall EXCEPT ![c].pc = "idle", ![c].result = "Err"]
          /\ UNCHANGED term_child
    /\ UNCHANGED <<term_reg, term_reader, term_events>>
    /\ termUnchanged

\* spawn_terminal: register_terminal(session)
RegisterTerminal(c) ==
    /\ tcall[c].pc = "register"
    /\ term_reg' = register_terminal(term_reg, tcall[c].terminal_id,
                                     tcall[c].session)
    /\ tcall' = [tcall EXCEPT ![c].pc = "emit_started"]
    /\ UNCHANGED <<term_child, term_reader, term_events>>
    /\ termUnchanged

\* spawn_terminal: app.emit("terminal:started", &started_event)
EmitStarted(c) ==
    /\ tcall[c].pc = "emit_started"
    /\ term_events' = Append(term_events,
                             TerminalStartedEvent(tcall[c].terminal_id))
    /\ tcall' = [tcall EXCEPT ![c].pc = "spawn_reader"]
    /\ UNCHANGED <<term_reg, term_child, term_reader>>
    /\ termUnchanged

\* spawn_terminal: thread::spawn(move || { .. }); Ok(())
SpawnReader(c) ==
    /\ tcall[c].pc = "spawn_reader"
    /\ term_reader' = [term_reader EXCEPT ![tcall[c].session] =
                          [pc |-> "reading", terminal_id |-> tcall[c].terminal_id,
                           outputs |-> 0, removed |-> NoTerm]]
    /\ tcall' = [tcall EXCEPT ![c].pc = "idle", ![c].result = "Ok",
                              ![c].session = NoTerm]
    /\ UNCHANGED <<term_reg, term_child, term_events>>
    /\ termUnchanged

\* stop_terminal -> kill_terminal: if let Some(mut session) =
\* unregister_terminal(terminal_id) { .. } else { Ok(false) }
KillTerminal(c, id) ==
    /\ tcall[c].pc = "idle"
    /\ term_reg' = unregister_terminal(term_reg, id)
    /\ tcall' = [tcall EXCEPT ![c] =
                   IF has_terminal(term_reg, id)
                   THEN [IdleCall("stop_terminal", id, "none")
                            EXCEPT !.pc = "kill", !.session = term_reg[id]]
                   ELSE IdleCall("stop_terminal", id, "Ok(false)")]
    /\ UNCHANGED <<term_child, term_reader, term_events>>
    /\ termUnchanged

\* A child that is running is killed.
Killed(child) ==
    IF child.proc = "running" THEN [child EXCEPT !.proc = "killed"] ELSE child

\* kill_terminal: libc::kill(pid, SIGTERM); let _ = session.child.kill();
KillChild(c) ==
    /\ tcall[c].pc = "kill"
    /\ term_child' = [term_child EXCEPT ![tcall[c].session] = Killed(@)]
    /\ tcall' = [tcall EXCEPT ![c].pc = "emit_stopped"]
    /\ UNCHANGED <<term_reg, term_reader, term_events>>
    /\ termUnchanged

\* kill_terminal: app.emit("terminal:stopped", &stopped_event); Ok(true)
EmitStopped(c) ==
    /\ tcall[c].pc = "emit_stopped"
    /\ term_events' = Append(term_events,
           TerminalStoppedEvent(tcall[c].terminal_id, tcall[c].session))
    /\ tcall' = [tcall EXCEPT ![c].pc = "idle", ![c].result = "Ok(true)",
                              ![c].session = NoTerm]
    /\ UNCHANGED <<term_reg, term_child, term_reader>>
    /\ termUnchanged

\* kill_all_terminals: with the registry mutex held, every session is
\* drained from the map and its child killed; no event is emitted and the
\* number of sessions found is returned.
KillAllTerminals(c) ==
    /\ tcall[c].pc = "idle"
    /\ LET found == {term_reg[id] : id \in {i \in TermIds : has_terminal(term_reg, i)}}
       IN /\ term_reg' = [id \in TermIds |-> NoTerm]
          /\ term_child' = [h \in TermSessions |->
                              IF h \in found THEN Killed(term_child[h])
                              ELSE term_child[h]]
          /\ tcall' = [tcall EXCEPT ![c] =
                IdleCall("kill_all_terminals", tcall[c].terminal_id,
                         IF found = {} THEN "0" ELSE "1")]
    /\ UNCHANGED <<term_reader, term_events>>
    /\ termUnchanged

\* The shell of a session exits by itself.
ChildExit(h) ==
    /\ term_child[h].proc = "running"
    /\ term_child' = [term_child EXCEPT ![h].proc = "exited"]
    /\ UNCHANGED <<term_reg, term_reader, term_events, tcall>>
    /\ termUnchanged

\* No process holds the terminal of a session open any more: the shell
\* and its jobs have gone or have closed it.  From then on a read of the
\* master returns Ok(0) or Err.
TerminalClosed(h) ==
    /\ term_child[h].tty = "open"
    /\ term_child' = [term_child EXCEPT ![h].tty = "closed"]
    /\ UNCHANGED <<term_reg, term_reader, term_events, tcall>>
    /\ termUnchanged

\* Reader thread, reader.read(&mut buf) returns Ok(n), n > 0: something
\* was written to the terminal.
ReaderRead(h) ==
    /\ term_reader[h].pc = "reading"
    /\ term_child[h].tty = "open"
    /\ term_reader[h].outputs < MaxOutputs
    /\ term_reader' = [term_reader EXCEPT ![h].pc = "emit_output",
                                          ![h].outputs = @ + 1]
    /\ UNCHANGED <<term_reg, term_child, term_events, tcall>>
    /\ termUnchanged

\* Reader thread: app_clone.emit("terminal:output", &event)
ReaderOutput(h) ==
    /\ term_reader[h].pc = "emit_output"
    /\ term_events' = Append(term_events,
                             TerminalOutputEvent(term_reader[h].terminal_id))
    /\ term_reader' = [term_reader EXCEPT ![h].pc = "reading"]
    /\ UNCHANGED <<term_reg, term_child, tcall>>
    /\ termUnchanged

\* Reader thread, the read returns Ok(0) or Err: break.
ReaderEof(h) ==
    /\ term_reader[h].pc = "reading"
    /\ term_child[h].tty = "closed"
    /\ term_reader' = [term_reader EXCEPT ![h].pc = "cleanup"]
    /\ UNCHANGED <<term_reg, term_child, term_events, tcall>>
    /\ termUnchanged

\* Reader thread: if let Some(mut session) = unregister_terminal(&terminal_id_clone)
ReaderUnregister(h) ==
    /\ term_reader[h].pc = "cleanup"
    /\ LET id == term_reader[h].terminal_id
       IN /\ term_reg' = unregister_terminal(term_reg, id)
          /\ term_reader' = [term_reader EXCEPT
                               ![h].removed = term_reg[id],
                               ![h].pc = IF term_reg[id] = NoTerm
                                         THEN "done" ELSE "waiting"]
    /\ UNCHANGED <<term_child, term_events, tcall>>
    /\ termUnchanged

\* Reader thread: session.child.wait() returns once the child of the
\* session it removed is gone; terminal:stopped is emitted.
ReaderReportStopped(h) ==
    /\ term_reader[h].pc = "waiting"
    /\ term_child[term_reader[h].removed].proc # "running"
    /\ term_events' = Append(term_events,
           TerminalStoppedEvent(term_reader[h].terminal_id, term_reader[h].removed))
    /\ term_reader' = [term_reader EXCEPT ![h].pc = "done"]
    /\ UNCHANGED <<term_reg, term_child, tcall>>
    /\ termUnchanged

\* No terminal has been started.
InitTermVars ==
    /\ term_reg = [id \in TermIds |-> NoTerm]
    /\ term_child = [h \in TermSessions |-> [proc |-> "none", tty |-> "none"]]
    /\ term_reader = [h \in TermSessions |->
                        [pc |-> "none", terminal_id |-> "term1",
                         outputs |-> 0, removed |-> NoTerm]]
    /\ term_events = <<>>
    /\ tcall = [c \in TermCallers |-> IdleCall("none", "term1", "none")]

\* Nothing else of the backend is in use.
InitAuxVars ==
    /\ InitEscVars
    /\ InitStoreVars
    /\ InitTermVars

\* No other run is using the registry.
InitRegModelVars ==
    /\ rth = [t \in Threads |->
                [pc |-> "start", session |-> Session, reg |-> "no"]]
    /\ reg_lock = [m \in RegistryMutexes |-> "free"]
    /\ alive = {}

\* A run of one of the three vendors.
Init ==
    /\ vendor \in Vendors
    /\ InitRunVars
    /\ InitTailVars
    /\ InitRegModelVars
    /\ InitAuxVars

RunStep ==
    \/ GetCliPath
    \/ CheckCliExists
    \/ PrepareFiles
    \/ SpawnProcess
    \/ RegisterProcess
    \/ SetupLoop
    \/ LoopCancelCheck
    \/ LoopPoll
    \/ LoopAliveCheck
    \/ LoopTimeoutCheck
    \/ GeminiNextLine
    \/ GeminiWait
    \/ UnregisterProcess
    \/ FinishTailRun
    \/ FinishGeminiRun

Next ==
    \/ RunStep
    \/ ProcessWrite
    \/ ProcessExit
    \/ Cancel
    \/ Tick

Spec == Init /\ [][Next]_vars

\* The thread of the run function keeps being scheduled and time passes; the
\* spawned process and the control thread are under no obligation.
FairSpec == Spec /\ WF_vars(RunStep) /\ WF_vars(Tick)

\* A tailer created with new_from_start on the empty file a run creates, and
\* the writer of that file.
TailInit ==
    /\ vendor = "codex"
    /\ InitRunVars
    /\ InitTailVars
    /\ InitRegModelVars
    /\ InitAuxVars

TailNext ==
    \/ WriterAppend
    \/ PollStart
    \/ PollReadLine

TailSpec == TailInit /\ [][TailNext]_vars

\* The files the writer can have produced when a tailer is created.
RECURSIVE WrittenFiles(_)
WrittenFiles(n) ==
    IF n = 0 THEN {<<>>}
    ELSE LET shorter == WrittenFiles(n - 1)
         IN shorter \cup
            {Append(f, b) : <<f, b>> \in
                {x \in shorter \X Bytes :
                    Len(x[1]) = n - 1 /\ WriterMayAppend(x[1], x[2])}}

\* A tailer created with new_at_end or with new_from_start on a file that
\* may already have content, and the writer of that file.
TailModeInit ==
    /\ vendor = "codex"
    /\ InitRunVars
    /\ InitRegModelVars
    /\ InitAuxVars
    /\ tmode \in {"start", "end"}
    /\ tfile \in WrittenFiles(MaxPre)
    /\ tlen0 = Len(tfile)
    /\ tpos = IF tmode = "end" THEN Len(tfile) ELSE 0
    /\ tbuffer = <<>>
    /\ in_poll = FALSE
    /\ cur_lines = <<>>
    /\ delivered = <<>>
    /\ last_poll = "none"

TailModeSpec == TailModeInit /\ [][TailNext]_vars

\* Two runs, each for a session id given by its caller, sharing the
\* registry.
RegInit ==
    /\ vendor \in Vendors
    /\ InitRunVars
    /\ InitTailVars
    /\ rth \in [Threads -> [pc : {"start"}, session : Sessions, reg : {"no"}]]
    /\ reg_lock = [m \in RegistryMutexes |-> "free"]
    /\ alive = {}
    /\ InitAuxVars

\* The steps of a run inside its calls of register_process and
\* unregister_process, from the call to its return.
ThreadRegistryCall(t) ==
    \/ ThreadIdLookupLock(t)
    \/ ThreadIdLookup(t)
    \/ ThreadIdLock(t)
    \/ ThreadLock(t)
    \/ ThreadRegister(t)
    \/ ThreadUnregister(t)

ThreadStep(t) ==
    \/ ThreadSpawn(t)
    \/ ThreadRegistryCall(t)
    \/ ThreadSetup(t)
    \/ ThreadLeaveLoop(t)

RegNext ==
    \/ \E t \in Threads : ThreadStep(t)
    \/ \E t \in Threads : ThreadProcessExit(t)

RegSpec == RegInit /\ [][RegNext]_vars

\* A run that has reached a call of register_process or unregister_process
\* makes the call, and a run inside such a call keeps being scheduled until
\* the call returns. Nothing is asked of the launch, of the setup or of the
\* loop: a run may stay in its loop for ever, polling or blocked on the
\* output of a process that is alive and is not cancelled.
RegFairSpec == RegSpec /\ \A t \in Threads : WF_vars(ThreadRegistryCall(t))

\* The body of the loop over the lines, for one line: the line is handed to
\* the interpreter of the vendor, which updates the transcript, emits its
\* events and may signal completion (which ends the loop).
InterpretLine ==
    /\ ~completed
    /\ rd = Len(out)
    /\ Len(out) < MaxRecords
    /\ \E line \in AllRecords :
         LET r == Interpret(vendor, line, full_content)
         IN /\ out' = Append(out, line)
            /\ rd' = rd + 1
            /\ full_content' = r.content
            /\ events' = events \o r.events
            /\ completed' = r.signal
    /\ UNCHANGED <<vendor, pc, registry, proc, exit_ok, got_first_output,
                   since_start, since_output, result, exit_reason,
                   cancel_requested, n_register, n_unregister, polled>>
    /\ tailUnchanged

\* A run inside its loop, about to interpret the lines of its process.
InterpInit ==
    /\ vendor \in Vendors
    /\ pc = IF vendor \in TailVendors THEN "loop_poll" ELSE "g_next"
    /\ registry = register_process([s \in Sessions |-> NoPid], Session, Pid)
    /\ proc = "running"
    /\ exit_ok = TRUE
    /\ out = <<>>
    /\ rd = 0
    /\ full_content = <<>>
    /\ got_first_output = FALSE
    /\ completed = FALSE
    /\ since_start = 0
    /\ since_output = 0
    /\ events = <<>>
    /\ result = NoResult
    /\ exit_reason = "none"
    /\ cancel_requested = FALSE
    /\ n_register = 1
    /\ n_unregister = 0
    /\ polled = FALSE
    /\ InitTailVars
    /\ InitRegModelVars
    /\ InitAuxVars

InterpNext == InterpretLine

InterpSpec == InterpInit /\ [][InterpNext]_vars

\* ------------------------------------------------------------------------
\* Properties
\* ------------------------------------------------------------------------
IsPrefix(s, t) == Len(s) <= Len(t) /\ SubSeq(t, 1, Len(s)) = s

Returned == pc = "returned"
DoneCount == CountEvents(events, "chat:done")
ErrorCount == CountEvents(events, "chat:error")

\* C1: for a tailer created with new_from_start, under any interleaving of
\* the writer's appends and poll() calls, the records returned by all polls
\* are the newline-terminated lines of the file, in file order, each exactly
\* once: they are always a prefix of the file's complete lines, and equal to
\* them once a poll has returned with the whole file read.
C1_ExactlyOnceInOrder ==
    /\ IsPrefix(delivered \o cur_lines, CompleteLines(tfile))
    /\ (~in_poll /\ tpos = Len(tfile)) => delivered = CompleteLines(tfile)

\* C2: a run that registered its process id has unregistered its session id
\* exactly once when the function returns, on every exit path.
C2_UnregisteredOnReturn ==
    (Returned /\ n_register > 0) => n_unregister = 1

\* C3: when a run has returned, chat:done has been emitted exactly once, on
\* every terminal path, launch and setup failures included.
C3_DoneExactlyOnce == Returned => DoneCount = 1

\* C4: once the session is marked not running while the run is in its loop,
\* the run stops (leaves the loop, cleans up and returns) without waiting
\* for the process to write or to exit.
C4_CancelStopsRun ==
    (cancel_requested /\ pc \in LoopPcs) ~> Returned

\* C5: when a Codex or Kimi loop ends on a dead process after the grace
\* period, every record the process wrote has been returned by a poll.
C5_DrainedAtDeath == exit_reason = "dead" => rd = Len(out)

\* C6: the caller receives Ok with a non-empty transcript or an Err, never
\* Ok with an empty transcript.
C6_NeverSilent ==
    (Returned /\ result.kind = "Ok") => result.content # <<>>

\* C7: a launch failure returns Err, emits exactly one chat:error, never
\* registers the process id and never polls.
C7_LaunchFailureFatal ==
    exit_reason = "launch_failed" =>
        /\ result.kind = "Err"
        /\ ErrorCount = 1
        /\ n_register = 0
        /\ ~polled

\* C8: a run that ended because its session was marked not running returns a
\* response with cancelled set, and its last event is the chat:done
\* notification, carrying a cancelled flag (no error event for the
\* cancellation).
C8_CancelledFlag ==
    (Returned /\ exit_reason = "cancelled") =>
        /\ result.kind = "Ok"
        /\ result.cancelled
        /\ events # <<>>
        /\ events[Len(events)].name = "chat:done"
        /\ "cancelled" \in DOMAIN events[Len(events)]

\* C9 as stated: a Codex or Kimi loop that has ended with no output ever
\* seen and the session not cancelled has ended by the startup timeout.
C9_SilentRunTimesOut ==
    (vendor \in TailVendors /\ pc \in {"unregister", "finish", "returned"}
        /\ polled /\ ~got_first_output /\ ~cancel_requested)
    => exit_reason = "timeout"

\* C9 as amended: while a Codex or Kimi loop runs, it cannot go on for ever
\* with the process alive, no output seen and the session not cancelled: it
\* reaches the startup timeout (a process that dies silently ends the loop
\* by the dead-process path instead).
C9_AliveSilentRunTimesOut ==
    (pc \in TailLoopPcs) ~>
        (exit_reason = "timeout" \/ got_first_output \/ cancel_requested
            \/ ~is_process_alive)

\* C9 witness: the loop has ended by the startup timeout with the process
\* still alive.
C9_Witness ==
    Returned /\ exit_reason = "timeout" /\ is_process_alive /\ ~cancel_requested

\* C10: once the process of a Codex or Kimi run is dead and more than the
\* grace period has passed since the last output, the run leaves the loop,
\* unregisters and emits chat:done, with or without a turn-completion record.
C10_DeadProcessCompletes ==
    (pc \in TailLoopPcs /\ proc = "exited"
        /\ since_output > DEAD_PROCESS_GRACE_PERIOD) ~>
        (Returned /\ n_unregister = 1 /\ DoneCount = 1)

\* C10 witness: a run has ended on the dead process without having read a
\* turn-completion record.
C10_Witness ==
    Returned /\ exit_reason = "dead" /\ ~completed /\ DoneCount = 1
        /\ n_unregister = 1

\* The last event emitted is the chat:done of a Codex/Kimi run.
LastEventIsDone(c, ok) ==
    events # <<>> /\ events[Len(events)] = DoneEvent(c, ok)

\* C11: a Codex run whose process wrote only a turn.completed record and
\* then exited, that was launched and not cancelled, whose last poll did not
\* fail and that lost no record to a failed poll, ends Completed: the
\* completion signal was observed, the transcript is empty and chat:done
\* reports success.
C11_StubRunCompletes ==
    (vendor = "codex" /\ Returned /\ result.kind = "Ok"
        /\ out = <<"done">> /\ proc = "exited" /\ ~cancel_requested
        /\ last_poll # "err" /\ ~(rd = Len(out) /\ ~completed))
    => (completed /\ exit_reason = "completed" /\ result.content = <<>>
            /\ LastEventIsDone(<<>>, TRUE))

\* C12: the registry maps each session id to at most one process id, and an
\* entry that points to a process still alive is never replaced by another
\* process id while that process stays alive.
C12_NoSilentReplace ==
    [][\A s \in Sessions :
         (registry[s] # NoPid /\ registry[s] \in alive
             /\ registry'[s] # NoPid /\ registry'[s] # registry[s])
         => registry[s] \notin alive']_vars

\* The runs were given distinct session ids.
DistinctSessions ==
    \A t, u \in Threads : t # u => rth[t].session # rth[u].session

\* No register or unregister call is in progress.
RegistryQuiescent ==
    \A t \in Threads :
        \A i \in 2..5 : rth[t].pc \notin {RegisterPcs[i], UnregisterPcs[i]}

\* The session ids registered and not yet unregistered.
NetRegistered ==
    {rth[t].session : t \in {u \in Threads : rth[u].reg = "yes"}}

\* C13: register and unregister calls issued concurrently by different
\* threads for distinct session ids lose no entry (whenever no call is in
\* progress, the running sessions are exactly those registered and not
\* unregistered) and do not deadlock (every call returns).
C13_ConcurrentRegistry ==
    /\ [](DistinctSessions /\ RegistryQuiescent
            => get_running_sessions(registry) = NetRegistered)
    /\ \A t \in Threads :
         /\ (DistinctSessions /\ rth[t].pc = "register") ~> (rth[t].pc = "setup")
         /\ (DistinctSessions /\ rth[t].pc = "unregister")
                ~> (rth[t].pc = "returned")

\* C13 witness: with distinct session ids, one run has registered and
\* unregistered while the other is registered, and only the latter is listed.
C13_Witness ==
    /\ DistinctSessions
    /\ rth["t1"].pc = "loop" /\ rth["t2"].pc = "returned"
    /\ rth["t2"].reg = "removed"
    /\ get_running_sessions(registry) = {rth["t1"].session}

\* C14: delivery survives a failed poll: when a poll() call has returned an
\* error, every complete line of the part of the file read so far, the lines
\* read inside the failing call included, has been handed over (the reader
\* is past them, so no later poll can return them).
C14_DeliveryAcrossPollError ==
    (~in_poll /\ last_poll = "err")
    => delivered = CompleteLines(SubSeq(tfile, 1, tpos))

\* C15: when the first lines a Codex or Kimi poll returns begin with the
\* vendor's error record, an error event is emitted for it and the loop goes
\* on (it ends at that poll only if a completion record follows in the same
\* lines); completion is only ever due to a completion record; and a run
\* that has seen output ends by completion, death or cancellation, never by
\* the startup timeout.
C15_ErrorRecordKeepsPolling ==
    /\ [][(vendor \in TailVendors /\ pc = "loop_poll" /\ ~got_first_output
             /\ got_first_output' /\ out[rd + 1] = "fail")
          => /\ Len(events') > Len(events)
             /\ events'[Len(events) + 1] = ErrorEvent
             /\ full_content' = ProcessLines(vendor,
                    SubSeq(out, rd + 2, Len(out)), full_content, <<>>).content
             /\ \/ pc' = "loop_alive" /\ ~completed'
                \/ completed' /\ \E i \in (rd + 2)..Len(out) : out[i] = "done"]_vars
    /\ [](completed => \E i \in 1..rd : out[i] = "done")
    /\ []((vendor \in TailVendors /\ got_first_output /\ exit_reason # "none")
            => exit_reason \in {"completed", "dead", "cancelled"})

\* C15 witness: a Codex or Kimi loop is still running after the error record
\* was interpreted and its error event emitted.
C15_Witness ==
    /\ vendor \in TailVendors /\ pc \in TailLoopPcs
    /\ rd >= 1 /\ out[1] = "fail" /\ got_first_output /\ ErrorCount = 1

\* C16: a record that is not JSON (and not blank) is appended verbatim with
\* a newline to the transcript by every vendor's interpreter, one chunk event
\* carrying that same content is emitted and nothing else, and no completion
\* is signalled.
C16_NonJsonVerbatim ==
    [][(rd' = rd + 1 /\ out'[rd'] = "text")
       => /\ full_content' = full_content \o LineText("text") \o <<"\n">>
          /\ events' = Append(events, Chunk(LineText("text") \o <<"\n">>))
          /\ ~completed']_vars

\* The step of a Gemini run that interprets a result record: the record is
\* used, as the whole transcript and as one chunk, only when the transcript
\* is empty; otherwise it changes neither the transcript nor the events.
ResultOnlyWhenEmpty ==
    (vendor = "gemini" /\ rd' = rd + 1 /\ out'[rd'] = "result")
       => IF full_content = <<>>
          THEN /\ full_content' = <<"a">>
               /\ events' = Append(events, Chunk(<<"a">>))
          ELSE /\ full_content' = full_content
               /\ events' = events

\* The i-th record interpreted is a result record that was used: every
\* record before it left the transcript empty.
ResultUsedAt(i) ==
    /\ out[i] = "result"
    /\ \A j \in 1..(i - 1) : process_gemini_line(out[j], <<>>).content = <<>>

\* Every record interpreted after the i-th left alone a transcript holding
\* the text of the result record.
NothingAddedAfter(i) ==
    \A j \in (i + 1)..rd :
        process_gemini_line(out[j], <<"a">>).content = <<"a">>

\* C18 as stated: the result record is used only when the transcript is
\* empty, and so, after any sequence of records, a transcript in which the
\* text of a result record was stored holds that text and nothing beside it.
C18_ResultOnlyAsFallback ==
    /\ [][ResultOnlyWhenEmpty]_vars
    /\ [](vendor = "gemini"
          => \A i \in 1..rd : ResultUsedAt(i) => full_content = <<"a">>)

\* C18, amended: in a Gemini run the result record is used, as the whole
\* transcript and as one chunk, only when the transcript is empty when the
\* record is interpreted, and otherwise changes neither the transcript nor
\* the events; a transcript in which the text of a result record was stored
\* holds that text once and nothing beside it as long as no later record
\* adds text. (A message or a plain line interpreted after a result record
\* that was used is appended after the text of the result.)
C18_ResultFallbackWhenEmpty ==
    /\ [][ResultOnlyWhenEmpty]_vars
    /\ [](vendor = "gemini"
          => \A i \in 1..rd :
                (ResultUsedAt(i) /\ NothingAddedAfter(i))
                   => full_content = <<"a">>)

\* C18 witness: a Gemini run has interpreted a message and then the result
\* record, and the transcript holds the answer once.
C18_Witness ==
    /\ vendor = "gemini" /\ out = <<"msg", "result">> /\ rd = 2
    /\ full_content = <<"a">> /\ events = <<Chunk(<<"a">>)>>

\* C19: the Kimi interpreter signals completion for no record; a Kimi run
\* never ends as completed; and while the process is alive, the session is
\* registered and output has been seen, the loop is not left.
C19_KimiNeverCompletes ==
    /\ [](vendor = "kimi" =>
            /\ \A line \in AllRecords :
                 ~process_kimi_event(line, full_content).signal
            /\ ~completed
            /\ exit_reason \in {"none", "launch_failed", "setup_failed",
                                "cancelled", "dead", "timeout"})
    /\ [][(vendor = "kimi" /\ pc \in TailLoopPcs /\ is_process_alive
             /\ is_process_running(registry, Session) /\ got_first_output)
          => pc' \in TailLoopPcs]_vars

\* C19 witness: a Kimi loop is still running after it interpreted the
\* turn.completed line.
C19_Witness ==
    /\ vendor = "kimi" /\ pc \in TailLoopPcs
    /\ rd >= 1 /\ out[1] = "done" /\ got_first_output

\* C20: in a Gemini run a record marked as the user's own input (type user
\* or role user) emits no event and leaves the transcript unchanged.
C20_UserEchoDiscarded ==
    [][(vendor = "gemini" /\ rd' = rd + 1
          /\ out'[rd'] \in {"echo", "echo_role", "echo_spaced"})
       => (full_content' = full_content /\ events' = events)]_vars

\* C17: a tailer created with new_at_end returns nothing until content is
\* appended and only ever returns lines of the content appended after its
\* creation; the first poll() of a tailer created with new_from_start
\* returns, in file order, all the complete lines the file had at creation.
C17_TailerModes ==
    /\ [](tmode = "end" =>
            /\ (Len(tfile) = tlen0 => delivered \o cur_lines = <<>>)
            /\ Range(delivered \o cur_lines) \subseteq
                   Range(CompleteLines(SubSeq(tfile, tlen0 + 1, Len(tfile)))))
    /\ [][(tmode = "start" /\ last_poll = "none" /\ in_poll /\ ~in_poll')
          => IsPrefix(CompleteLines(SubSeq(tfile, 1, tlen0)), delivered')]_vars

(***************************************************************************)
(* shell_escape on its own: every string up to MaxStr characters is        *)
(* escaped once.                                                           *)
(***************************************************************************)
EscInit ==
    /\ vendor = "codex"
    /\ InitRunVars
    /\ InitTailVars
    /\ InitRegModelVars
    /\ InitStoreVars
    /\ InitTermVars
    /\ esc_in \in Strings
    /\ esc_cmd = <<>>
    /\ esc_done = FALSE

EscNext == EscapeArgument

EscSpec == EscInit /\ [][EscNext]_vars

\* Word splitting and quote removal of a POSIX shell on a command text:
\* within single quotes every character is literal up to the next single
\* quote; outside quotes a backslash makes the next character literal, a
\* blank ends the word, and $ starts an expansion (kept as the marker
\* "expansion", which no argument contains).  mode is "none" between
\* words, "word" inside an unquoted part, "squote" inside single quotes.
RECURSIVE ShellParse(_, _, _, _)
ShellParse(text, mode, cur, words) ==
    IF text = <<>>
    THEN CASE mode = "squote" -> <<<<"unterminated">>>>
           [] mode = "word" -> Append(words, cur)
           [] OTHER -> words
    ELSE LET c == Head(text)
             rest == Tail(text)
         IN  IF mode = "squote"
             THEN IF c = "'"
                  THEN ShellParse(rest, "word", cur, words)
                  ELSE ShellParse(rest, "squote", Append(cur, c), words)
             ELSE CASE c = "'" -> ShellParse(rest, "squote", cur, words)
                    [] c = "\\" ->
                         IF rest = <<>>
                         THEN ShellParse(rest, "word", Append(cur, c), words)
                         ELSE ShellParse(Tail(rest), "word",
                                         Append(cur, Head(rest)), words)
                    [] c = " " ->
                         IF mode = "word"
                         THEN ShellParse(rest, "none", <<>>, Append(words, cur))
                         ELSE ShellParse(rest, "none", <<>>, words)
                    [] c = "$" ->
                         ShellParse(rest, "word", Append(cur, "expansion"), words)
                    [] OTHER -> ShellParse(rest, "word", Append(cur, c), words)

ShellWords(text) == ShellParse(text, "none", <<>>, <<>>)

\* C21: for every string s (the empty string, strings with blanks or
\* shell metacharacters, strings of single quotes only), a POSIX shell
\* parses shell_escape(s) into exactly one argument, equal to s.
C21_EscapeRoundTrip ==
    esc_done => ShellWords(esc_cmd) = <<esc_in>>

\* An argument holding a single quote, a blank and a metacharacter has
\* been escaped.
C21_Witness ==
    /\ esc_done
    /\ esc_in = <<"'", " ", "$">>

(***************************************************************************)
(* Two threads, each making one call of a public function of the session   *)
(* storage.  The index file of a worktree is there, or is missing as for a *)
(* worktree never used or a base session closed.                           *)
(***************************************************************************)
StoreInit ==
    /\ vendor = "codex"
    /\ InitRunVars
    /\ InitTailVars
    /\ InitRegModelVars
    /\ InitEscVars
    /\ InitTermVars
    /\ st_index \in [IndexFiles -> {NoIndexFile} \cup
                        {IndexFile(<<InitialSession(w)>>) : w \in Worktrees}]
    /\ ~st_index[BaseFile].exists
    /\ \A w \in Worktrees :
          st_index[w].exists => st_index[w].sessions = <<InitialSession(w)>>
    /\ st_meta = InitialMetadata(st_index)
    /\ st_lock = [k \in Worktrees \cup SessionIds |-> "free"]
    /\ st_map_lock = [m \in {"index", "metadata"} |-> "free"]
    /\ sth \in [StoreCallers -> StoreCalls]

StoreStep(u) ==
    \/ MapLock(u)
    \/ MapLookup(u)
    \/ IndexLock(u)
    \/ LoadIndex(u)
    \/ MutateAndSave(u)
    \/ IndexUnlock(u)
    \/ PreserveRename(u)
    \/ RestoreRead(u)
    \/ RestoreSave(u)
    \/ RestoreRemove(u)
    \/ ApplyMutation(u)
    \/ MetaMapLock(u)
    \/ MetaMapLookup(u)
    \/ MetaLock(u)
    \/ LoadMetadata(u)
    \/ UpdateSessionMetadata(u)
    \/ WithMetadataMut(u)
    \/ SaveMetadata(u)
    \/ DeleteSessionData(u)

StoreNext == \E u \in StoreCallers : StoreStep(u)

StoreSpec == StoreInit /\ [][StoreNext]_vars

\* Caller u is between the load and the save of an index under its lock.
InIndexSection(u) == sth[u].pc \in {"load", "save", "unlock"}

\* C22: with_sessions_mut changes the sessions of a worktree atomically:
\* when two concurrent calls for the same worktree have returned Ok, the
\* index lists the session added by each of them and each has its metadata.
C22_SessionsMutAtomic ==
    (\A u \in StoreCallers :
        /\ sth[u].op = "with_sessions_mut"
        /\ sth[u].pc = "returned" /\ sth[u].result = "ok")
    => \A u \in StoreCallers :
          /\ NewSession(u) \in Range(st_index[sth[u].worktree].sessions)
          /\ st_meta[NewSession(u)] # NoMetadata

\* C23: with_index_mut holds the lock of its worktree across load,
\* mutation and save: calls for the same worktree are never inside
\* together and the index lists the session of every call that returned
\* Ok; a call waits for a worktree lock only while a call for the same
\* worktree is inside, and the lock of the map is held during the lookup
\* only.
C23_IndexMutPerWorktreeLock ==
    (\A u \in StoreCallers : sth[u].op = "with_index_mut")
    => /\ \A u, v \in StoreCallers :
              (u # v /\ sth[u].worktree = sth[v].worktree
                     /\ InIndexSection(u)) => ~InIndexSection(v)
       /\ \A u \in StoreCallers :
              (sth[u].pc = "returned" /\ sth[u].result = "ok")
              => NewSession(u) \in Range(st_index[sth[u].worktree].sessions)
       /\ \A u \in StoreCallers :
              (sth[u].pc = "lock"
                  /\ \A v \in StoreCallers :
                        sth[v].worktree = sth[u].worktree => ~InIndexSection(v))
              => ENABLED IndexLock(u)
       /\ \A u \in StoreCallers :
              st_map_lock["index"] = u => sth[u].pc = "lookup"

\* Two with_index_mut calls: one has saved the index of w1, its session
\* added, while the other holds the lock of w2 and has loaded its index.
C23_Witness ==
    /\ \A u \in StoreCallers : sth[u].op = "with_index_mut"
    /\ sth["u1"].worktree = "w1" /\ sth["u1"].pc = "unlock"
    /\ sth["u1"].result = "pending"
    /\ NewSession("u1") \in Range(st_index["w1"].sessions)
    /\ sth["u2"].worktree = "w2" /\ sth["u2"].pc = "save"

\* Offset at which the tailer started to read.
StartOffset == IF tmode = "end" THEN tlen0 ELSE 0

\* Offset of the last newline the reader has consumed; its start offset
\* when it has consumed none.
LastNewlineRead ==
    LET nls == {i \in (StartOffset + 1)..tpos : tfile[i] = "NL"}
    IN IF nls = {} THEN StartOffset
       ELSE CHOOSE i \in nls : \A j \in nls : j <= i

\* C24: after every poll() call has returned, the pending buffer holds no
\* newline, and has_incomplete_data() is true exactly when bytes have been
\* read after the last newline consumed (so it is false on an empty file
\* and after a poll that ended on a complete line).
C24_BufferIsUnterminatedTail ==
    (~in_poll /\ last_poll # "none")
    => /\ \A i \in 1..Len(tbuffer) : tbuffer[i] # "NL"
       /\ has_incomplete_data <=> (tpos > LastNewlineRead)

\* C26: every record returned by poll() of a tailer created with
\* new_at_end is an entire line of the file (the full text between two
\* consecutive newlines, or from the start of the file to its first
\* newline), also when the file ended in an unterminated partial line at
\* the time the tailer was created.
C26_AtEndReturnsEntireLines ==
    tmode = "end" => Range(delivered) \subseteq Range(CompleteLines(tfile))

\* C25: a run's exit removes only its own registration: when a run is in
\* its loop with its session registered, the unregister_process call with
\* which another run ends does not make it see its session as not running.
C25_UnregisterOnlyOwn ==
    [][\A t, u \in Threads :
         (t # u /\ rth[u].pc = "loop"
             /\ is_process_running(registry, rth[u].session)
             /\ rth[t].pc = "unregistering" /\ rth'[t].pc = "returned")
         => is_process_running(registry', rth[u].session)]_vars

\* The contents of the chat:chunk events of a sequence of events, joined
\* in order.
RECURSIVE ChunkText(_)
ChunkText(evs) ==
    IF evs = <<>> THEN <<>>
    ELSE (IF Head(evs).name = "chat:chunk" THEN Head(evs).content ELSE <<>>)
         \o ChunkText(Tail(evs))

\* C27: in every run (Codex, Kimi, Gemini), after any sequence of
\* processed records, the contents of all chat:chunk events emitted so
\* far, joined in order, equal the accumulated transcript.
C27_ChunksSpellTranscript ==
    ChunkText(events) = full_content

\* C28: in every run that emits chat:done, the run has unregistered its
\* session id, and the session is not registered, when chat:done is
\* emitted; and chat:done is the last event of the run.
C28_DoneAfterUnregister ==
    /\ [](\A i \in 1..Len(events) :
             events[i].name = "chat:done" => i = Len(events))
    /\ [][DoneCount' > DoneCount
          => (n_unregister >= 1 /\ ~is_process_running(registry, Session)
                /\ Returned')]_vars

\* C28 witness: a run that nobody cancelled has unregistered, emitted
\* chat:done as its last event and returned.
C28_Witness ==
    /\ Returned /\ ~cancel_requested
    /\ n_register = 1 /\ n_unregister = 1
    /\ events # <<>> /\ events[Len(events)].name = "chat:done"

(***************************************************************************)
(* The terminal commands called from two threads, with the reader threads  *)
(* and the child processes of the sessions they start.                     *)
(***************************************************************************)
TermInit ==
    /\ vendor = "codex"
    /\ InitRunVars
    /\ InitTailVars
    /\ InitRegModelVars
    /\ InitEscVars
    /\ InitStoreVars
    /\ InitTermVars

TermNext ==
    \/ \E c \in TermCallers, id \in TermIds : StartTerminalCheck(c, id)
    \/ \E c \in TermCallers : SpawnTerminal(c)
    \/ \E c \in TermCallers : RegisterTerminal(c)
    \/ \E c \in TermCallers : EmitStarted(c)
    \/ \E c \in TermCallers : SpawnReader(c)
    \/ \E c \in TermCallers, id \in TermIds : KillTerminal(c, id)
    \/ \E c \in TermCallers : KillChild(c)
    \/ \E c \in TermCallers : EmitStopped(c)
    \/ \E c \in TermCallers : KillAllTerminals(c)
    \/ \E h \in TermSessions : ChildExit(h)
    \/ \E h \in TermSessions : TerminalClosed(h)
    \/ \E h \in TermSessions : ReaderRead(h)
    \/ \E h \in TermSessions : ReaderOutput(h)
    \/ \E h \in TermSessions : ReaderEof(h)
    \/ \E h \in TermSessions : ReaderUnregister(h)
    \/ \E h \in TermSessions : ReaderReportStopped(h)

TermSpec == TermInit /\ [][TermNext]_vars

\* C29: at most one terminal session exists per terminal id: a
\* start_terminal call for an id that is registered returns the error
\* "Terminal already exists" and leaves the registry as it is, and no
\* start_terminal call, concurrent calls for the same id included, ever
\* replaces a registered session by another one.
C29_OneSessionPerTerminalId ==
    /\ [][\A c \in TermCallers :
            (tcall[c].pc = "idle" /\ tcall'[c] # tcall[c]
                /\ tcall'[c].op = "start_terminal"
                /\ has_terminal(term_reg, tcall'[c].terminal_id))
            => (tcall'[c].pc = "idle"
                   /\ tcall'[c].result = "Terminal already exists"
                   /\ term_reg' = term_reg)]_vars
    /\ [][\A id \in TermIds :
            has_terminal(term_reg, id)
            => term_reg'[id] \in {NoTerm, term_reg[id]}]_vars

\* C30: the reader thread of a session unregisters, and reports
\* terminal:stopped for, its own session only: it never takes another
\* session of the same terminal id out of the registry, so after
\* kill_terminal(id) and a new start_terminal(id) the old reader thread
\* reaching end of file leaves the new session registered.
C30_ReaderCleansOwnSession ==
    \A h \in TermSessions : term_reader[h].removed \in {NoTerm, h}

====
